---- MODULE Spec2Model ----
(***************************************************************************)
(* ClimateGuard: the context compactor (src/memory/compactor.py).          *)
(*                                                                         *)
(* Texts are TLA+ strings; Python's str operations and the regular         *)
(* expressions of extract_key_facts are written out character by           *)
(* character over them.  A conversation is a sequence of turns whose       *)
(* contents are drawn from TurnContents.                                   *)
(***************************************************************************)
EXTENDS Integers, Sequences, FiniteSets, TLC

\* ------------------------------------------------------------------ bounds
\* Longest conversation handed to the compactor.
MaxTurns == 3

\* ------------------------------------------------------- Python primitives
Min2(a, b) == IF a <= b THEN a ELSE b
Max2(a, b) == IF a >= b THEN a ELSE b
MinOf(S) == CHOOSE x \in S : \A y \in S : x <= y

\* s[i] as a one-character string, "" outside the string.
CharAt(s, i) == IF 1 <= i /\ i <= Len(s) THEN SubSeq(s, i, i) ELSE ""

\* s.startswith(w, i-1)
StartsWithAt(s, i, w) ==
    /\ i >= 1
    /\ i + Len(w) - 1 <= Len(s)
    /\ SubSeq(s, i, i + Len(w) - 1) = w

\* Python's `w in s` for strings.
Contains(s, w) ==
    LET n == Len(w)
    IN  \E i \in 1..(Len(s) - n + 1) : SubSeq(s, i, i + n - 1) = w

UpperToLower ==
    [c \in {"A","B","C","D","E","F","G","H","I","J","K","L","M",
            "N","O","P","Q","R","S","T","U","V","W","X","Y","Z"} |->
       CASE c = "A" -> "a" [] c = "B" -> "b" [] c = "C" -> "c" [] c = "D" -> "d"
         [] c = "E" -> "e" [] c = "F" -> "f" [] c = "G" -> "g" [] c = "H" -> "h"
         [] c = "I" -> "i" [] c = "J" -> "j" [] c = "K" -> "k" [] c = "L" -> "l"
         [] c = "M" -> "m" [] c = "N" -> "n" [] c = "O" -> "o" [] c = "P" -> "p"
         [] c = "Q" -> "q" [] c = "R" -> "r" [] c = "S" -> "s" [] c = "T" -> "t"
         [] c = "U" -> "u" [] c = "V" -> "v" [] c = "W" -> "w" [] c = "X" -> "x"
         [] c = "Y" -> "y" [] c = "Z" -> "z"]

\* str.lower()
RECURSIVE Lower(_)
Lower(s) ==
    IF Len(s) = 0 THEN ""
    ELSE IF Len(s) = 1 THEN (IF s \in DOMAIN UpperToLower THEN UpperToLower[s] ELSE s)
    ELSE LET h == Len(s) \div 2
         IN  Lower(SubSeq(s, 1, h)) \o Lower(SubSeq(s, h + 1, Len(s)))

\* Character classes of the re module, over the characters the texts use.
Digits == {"0","1","2","3","4","5","6","7","8","9"}
Whitespace == {" "}
WordChars ==
    Digits \cup {"_"} \cup DOMAIN UpperToLower \cup
    {"a","b","c","d","e","f","g","h","i","j","k","l","m",
     "n","o","p","q","r","s","t","u","v","w","x","y","z"}

\* Index of the last character of the longest run of class-C characters that
\* starts at i (i-1 when s[i] is not in C): a greedy  C*  from i.
RECURSIVE RunEnd(_, _, _)
RunEnd(s, i, C) == IF CharAt(s, i) \in C THEN RunEnd(s, i + 1, C) ELSE i - 1

\* Index of the first character of the longest run of class-C characters that
\* ends at i (i+1 when s[i] is not in C).
RECURSIVE RunStart(_, _, _)
RunStart(s, i, C) == IF CharAt(s, i) \in C THEN RunStart(s, i - 1, C) ELSE i + 1

\* str.strip()
Strip(s) ==
    LET first == RunEnd(s, 1, Whitespace) + 1
        last == RunStart(s, Len(s), Whitespace) - 1
    IN  IF first > last THEN "" ELSE SubSeq(s, first, last)

\* re.split(r'[.!?]', text): the pieces between the delimiters, empty ones
\* included.
RECURSIVE SplitFrom(_, _)
SplitFrom(s, start) ==
    LET D == {i \in start..Len(s) : CharAt(s, i) \in {".", "!", "?"}}
    IN  IF D = {} THEN << SubSeq(s, start, Len(s)) >>
        ELSE << SubSeq(s, start, MinOf(D) - 1) >> \o SplitFrom(s, MinOf(D) + 1)

SplitSentences(s) == SplitFrom(s, 1)

\* sep.join(parts)
RECURSIVE Join(_, _)
Join(sep, parts) ==
    IF Len(parts) = 0 THEN ""
    ELSE IF Len(parts) = 1 THEN parts[1]
    ELSE parts[1] \o sep \o Join(sep, Tail(parts))

\* seq[:stop] and seq[start:] with Python's treatment of negative and
\* out-of-range indices; -0 is 0, so seq[:-0] is empty and seq[-0:] is seq.
PyIndex(i, n) == IF i < 0 THEN Max2(0, n + i) ELSE Min2(i, n)
SliceTo(s, stop) == SubSeq(s, 1, PyIndex(stop, Len(s)))
SliceFrom(s, start) == SubSeq(s, PyIndex(start, Len(s)) + 1, Len(s))

\* The first occurrence of every element, in order of first occurrence.
RECURSIVE Dedup(_)
Dedup(q) ==
    IF Len(q) = 0 THEN << >>
    ELSE LET front == Dedup(SubSeq(q, 1, Len(q) - 1))
             x == q[Len(q)]
         IN  IF \E i \in 1..Len(front) : front[i] = x THEN front
             ELSE Append(front, x)

Range(q) == {q[i] : i \in 1..Len(q)}

\* Faulty variant: the list is returned without going through a set.
ListOfSet_nodedup(q, seed) ==
    LET n == Len(q)
    IN  IF n = 0 THEN << >>
        ELSE [i \in 1..n |-> q[((i - 1 + seed) % n) + 1]]

\* list(set(q)): the distinct elements of q in the iteration order of a set
\* of str, which depends on the process's string-hash seed.  The order is
\* one of a seed-indexed family of rotations of the insertion order.
ListOfSet(q, seed) ==
    LET d == Dedup(q)
        n == Len(d)
    IN  IF n = 0 THEN << >>
        ELSE [i \in 1..n |-> d[((i - 1 + seed) % n) + 1]]

\* ------------------------------------------------------------ configuration
\* CompactionConfig.__post_init__: the default keyword allow-list.
DefaultPriorityKeywords ==
    << "co2", "carbon", "emissions", "footprint", "kg", "tons",
       "vegetarian", "vegan", "meat", "beef", "chicken",
       "car", "drive", "bicycle", "transit", "flight",
       "electric", "solar", "renewable",
       "commit", "goal", "plan", "will", "promise",
       "meatless", "reduce", "switch", "change",
       "live", "city", "country", "home" >>

\* -------------------------------------------------------- extract_key_facts
\* co2_pattern  (\d+(?:\.\d+)?)\s*(?:kg|tons?|tonnes?)\s*(?:co2|carbon|emissions?)
\* The alternatives are listed in the order the regex engine tries them.
Co2Units == << "kg", "tons", "ton", "tonnes", "tonne" >>
Co2Nouns == << "co2", "carbon", "emissions", "emission" >>

\* The first of alts that the text continues with at i ("" when none does).
FirstAltAt(s, i, alts) ==
    LET ok == {k \in 1..Len(alts) : StartsWithAt(s, i, alts[k])}
    IN  IF ok = {} THEN "" ELSE alts[MinOf(ok)]

\* End of  <unit>\s*<noun>  at i for the given unit, 0 when it does not match.
Co2UnitEnd(tl, i, unit) ==
    IF ~StartsWithAt(tl, i, unit) THEN 0
    ELSE LET n == RunEnd(tl, i + Len(unit), Whitespace) + 1
             noun == FirstAltAt(tl, n, Co2Nouns)
         IN  IF noun = "" THEN 0 ELSE n + Len(noun) - 1

\* End of the match of co2_pattern that starts at i, 0 when there is none.
Co2MatchEnd(tl, i) ==
    IF CharAt(tl, i) \notin Digits THEN 0
    ELSE LET d1 == RunEnd(tl, i, Digits)
             d2 == IF CharAt(tl, d1 + 1) = "." /\ CharAt(tl, d1 + 2) \in Digits
                   THEN RunEnd(tl, d1 + 2, Digits) ELSE d1
             u == RunEnd(tl, d2 + 1, Whitespace) + 1
             ok == {k \in 1..Len(Co2Units) : Co2UnitEnd(tl, u, Co2Units[k]) > 0}
         IN  IF ok = {} THEN 0 ELSE Co2UnitEnd(tl, u, Co2Units[MinOf(ok)])

\* The first index from i on that holds a digit, Len+1 when none does.
RECURSIVE NextDigit(_, _)
NextDigit(s, i) ==
    IF i > Len(s) \/ CharAt(s, i) \in Digits THEN i ELSE NextDigit(s, i + 1)

\* re.finditer: the non-overlapping matches, left to right, from `from` on.
\* A match starts with a digit, so the scan moves from digit to digit.
RECURSIVE Co2From(_, _)
Co2From(tl, from) ==
    LET i == NextDigit(tl, from)
    IN  IF i > Len(tl) THEN << >>
        ELSE LET e == Co2MatchEnd(tl, i)
             IN  IF e > 0
                 THEN << "Emissions data: " \o SubSeq(tl, i, e) >> \o Co2From(tl, e + 1)
                 ELSE Co2From(tl, i + 1)

EmissionFacts(tl) == Co2From(tl, 1)

\* Sentences with a commitment word and a priority keyword.
CommitmentWords == << "commit", "will", "plan to", "going to", "promise", "goal" >>

IsCommitment(sentence, keywords) ==
    LET sl == Lower(sentence)
    IN  /\ \E k \in 1..Len(CommitmentWords) : Contains(sl, CommitmentWords[k])
        /\ \E k \in 1..Len(keywords) : Contains(sl, keywords[k])

CommitmentFacts(text, keywords) ==
    LET sentences == SplitSentences(text)
        hit == {i \in 1..Len(sentences) : IsCommitment(sentences[i], keywords)}
        RECURSIVE Collect(_)
        Collect(i) ==
            IF i > Len(sentences) THEN << >>
            ELSE (IF i \in hit THEN << "Commitment: " \o Strip(sentences[i]) >> ELSE << >>)
                 \o Collect(i + 1)
    IN  Collect(1)

\* (?:i am|i'm|we are|we're)\s+(?:a\s+)?(vegetarian|vegan|omnivore|pescatarian)
\* Group 1 of the match that starts at i, "" when there is none.
DietAt(tl, i) ==
    LET p == FirstAltAt(tl, i, << "i am", "i'm", "we are", "we're" >>)
        ws == RunEnd(tl, i + Len(p), Whitespace)
        n == ws + 1
        diets == << "vegetarian", "vegan", "omnivore", "pescatarian" >>
        aws == RunEnd(tl, n + 1, Whitespace)
        withA == IF CharAt(tl, n) = "a" /\ aws >= n + 1
                 THEN FirstAltAt(tl, aws + 1, diets) ELSE ""
    IN  IF p = "" \/ ws < i + Len(p) THEN ""
        ELSE IF withA # "" THEN withA
        ELSE FirstAltAt(tl, n, diets)

\* Tail  \s+(?:to work|daily|regularly)  at j.
TransportTailAt(tl, j) ==
    LET ws == RunEnd(tl, j, Whitespace)
    IN  ws >= j /\ FirstAltAt(tl, ws + 1, << "to work", "daily", "regularly" >>) # ""

\* (\w+(?:\s+\w+)?)\s+(?:to work|daily|regularly)  at s: group 1, "" when
\* there is no match.  The two-word capture is tried first.
TransportCapture(tl, s) ==
    LET w1 == RunEnd(tl, s, WordChars)
        ws == RunEnd(tl, w1 + 1, Whitespace)
        w2 == RunEnd(tl, ws + 1, WordChars)
    IN  IF w1 < s THEN ""
        ELSE IF ws >= w1 + 1 /\ w2 >= ws + 1 /\ TransportTailAt(tl, w2 + 1)
             THEN SubSeq(tl, s, w2)
        ELSE IF TransportTailAt(tl, w1 + 1) THEN SubSeq(tl, s, w1)
        ELSE ""

\* (?:i|we)\s+(?:drive|use|take|ride)\s+(?:a\s+)?(\w+(?:\s+\w+)?)\s+(?:to work|daily|regularly)
TransportAt(tl, i) ==
    LET p == FirstAltAt(tl, i, << "i", "we" >>)
        ws1 == RunEnd(tl, i + Len(p), Whitespace)
        verb == FirstAltAt(tl, ws1 + 1, << "drive", "use", "take", "ride" >>)
        v == ws1 + 1 + Len(verb)
        ws2 == RunEnd(tl, v, Whitespace)
        n == ws2 + 1
        aws == RunEnd(tl, n + 1, Whitespace)
        withA == IF CharAt(tl, n) = "a" /\ aws >= n + 1
                 THEN TransportCapture(tl, aws + 1) ELSE ""
    IN  IF p = "" \/ ws1 < i + Len(p) \/ verb = "" \/ ws2 < v THEN ""
        ELSE IF withA # "" THEN withA
        ELSE TransportCapture(tl, n)

\* (?:live|living)\s+in\s+(\w+(?:\s+\w+)?)
LocationAt(tl, i) ==
    LET p == FirstAltAt(tl, i, << "live", "living" >>)
        ws1 == RunEnd(tl, i + Len(p), Whitespace)
        ws2 == RunEnd(tl, ws1 + 3, Whitespace)
        s == ws2 + 1
        w1 == RunEnd(tl, s, WordChars)
        ws3 == RunEnd(tl, w1 + 1, Whitespace)
        w2 == RunEnd(tl, ws3 + 1, WordChars)
    IN  IF \/ p = ""
           \/ ws1 < i + Len(p)
           \/ ~StartsWithAt(tl, ws1 + 1, "in")
           \/ ws2 < ws1 + 3
           \/ w1 < s
        THEN ""
        ELSE IF ws3 >= w1 + 1 /\ w2 >= ws3 + 1 THEN SubSeq(tl, s, w2)
        ELSE SubSeq(tl, s, w1)

\* re.search for the three preference patterns: the leftmost match of each.
PreferenceFacts(tl) ==
    LET \* a match starts with the first letter of one of its alternatives
        diet == {i \in 1..Len(tl) : CharAt(tl, i) \in {"i", "w"} /\ DietAt(tl, i) # ""}
        transport ==
            {i \in 1..Len(tl) : CharAt(tl, i) \in {"i", "w"} /\ TransportAt(tl, i) # ""}
        location == {i \in 1..Len(tl) : CharAt(tl, i) = "l" /\ LocationAt(tl, i) # ""}
    IN  (IF diet = {} THEN << >> ELSE << "Diet: " \o DietAt(tl, MinOf(diet)) >>)
        \o (IF transport = {} THEN << >>
            ELSE << "Transport: " \o TransportAt(tl, MinOf(transport)) >>)
        \o (IF location = {} THEN << >>
            ELSE << "Location: " \o LocationAt(tl, MinOf(location)) >>)

\* The list `facts` before deduplication, in the order the code appends.
FactList(text, keywords) ==
    EmissionFacts(Lower(text)) \o CommitmentFacts(text, keywords)
        \o PreferenceFacts(Lower(text))

extract_key_facts(text, keywords, seed) == ListOfSet(FactList(text, keywords), seed)

\* ----------------------------------------------------------- estimate_tokens
CharsPerToken == 4
estimate_tokens(text) == Len(text) \div CharsPerToken

\* ---------------------------------------------------------- summarize_turns
\* topic_keywords, in the dict's insertion order.
TopicKeywords ==
    << [topic |-> "diet", keywords |-> << "food", "eat", "meal", "meat", "vegetarian" >>],
       [topic |-> "transport", keywords |-> << "car", "drive", "commute", "flight", "train" >>],
       [topic |-> "energy", keywords |-> << "electricity", "energy", "power", "heating" >>],
       [topic |-> "footprint", keywords |-> << "footprint", "emissions", "carbon", "co2" >>] >>

\* The topics one turn adds to `topics`, in the order they are added.
TopicsOf(content) ==
    LET cl == Lower(content)
        hit == {t \in 1..Len(TopicKeywords) :
                  \E k \in 1..Len(TopicKeywords[t].keywords) :
                      Contains(cl, TopicKeywords[t].keywords[k])}
        RECURSIVE Collect(_)
        Collect(t) ==
            IF t > Len(TopicKeywords) THEN << >>
            ELSE (IF t \in hit THEN << TopicKeywords[t].topic >> ELSE << >>) \o Collect(t + 1)
    IN  Collect(1)

\* The contents of the turns, t.get("content", "").
ContentsOf(ts) == [i \in 1..Len(ts) |-> ts[i].content]

RECURSIVE Flatten(_)
Flatten(qs) == IF Len(qs) = 0 THEN << >> ELSE Head(qs) \o Flatten(Tail(qs))

SummaryFactLimit == 5
EllipsisLength == 3

\* The truncation at the end of summarize_turns.
TruncateSummary(summary, summary_max_length) ==
    IF Len(summary) > summary_max_length
    THEN SliceTo(summary, summary_max_length - EllipsisLength) \o "..."
    ELSE summary

summarize_turns(ts, cfg, seed) ==
    IF Len(ts) = 0 THEN ""
    ELSE LET all_facts ==
                 Flatten([i \in 1..Len(ts) |->
                            extract_key_facts(ts[i].content, cfg.priority_keywords, seed)])
             topics == ListOfSet(Flatten([i \in 1..Len(ts) |-> TopicsOf(ts[i].content)]), seed)
             unique_facts == SliceTo(ListOfSet(all_facts, seed), SummaryFactLimit)
             summary_parts ==
                 (IF Len(topics) > 0
                  THEN << "[Previous discussion covered: " \o Join(", ", topics) \o "]" >>
                  ELSE << >>)
                 \o (IF Len(all_facts) > 0
                     THEN << "[Key facts: " \o Join("; ", unique_facts) \o "]" >>
                     ELSE << >>)
         IN  TruncateSummary(Join(" ", summary_parts), cfg.summary_max_length)

\* ------------------------------------------------------------------ compact
PreservedFactLimit == 10

original_text(ts) == Join(" ", ContentsOf(ts))

\* Faulty variant: the smaller of the two counts is kept.
keep_count_min(ts, cfg) == Min2(cfg.min_turns_to_keep, Len(ts) \div 3)

\* Faulty variant: the division by three is forgotten.
keep_count_all(ts, cfg) == Max2(cfg.min_turns_to_keep, Len(ts))

keep_count(ts, cfg) == Max2(cfg.min_turns_to_keep, Len(ts) \div 3)

\* Faulty variant: the oldest keep_count turns are kept instead of the newest.
turns_to_keep_first(ts, cfg) == SliceTo(ts, keep_count(ts, cfg))

\* turns[:-keep_count] and turns[-keep_count:]
turns_to_summarize(ts, cfg) == SliceTo(ts, 0 - keep_count(ts, cfg))
turns_to_keep(ts, cfg) == SliceFrom(ts, 0 - keep_count(ts, cfg))

\* Faulty variant: original_tokens / compacted_tokens.
Ratio_inverted(a, b) == [num |-> b, den |-> a]

\* A float quotient, kept exact as numerator and denominator.
Ratio(a, b) == [num |-> a, den |-> b]

\* preserved_facts of the branch that returns without compacting.
WithinBudgetFacts(ts, cfg, seed) ==
    extract_key_facts(original_text(ts), cfg.priority_keywords, seed)

\* Faulty variant: all_facts[10:] instead of all_facts[:10].
OverBudgetFacts_tail(ts, cfg, seed) ==
    SliceFrom(extract_key_facts(original_text(ts), cfg.priority_keywords, seed),
              PreservedFactLimit)

\* preserved_facts of the compacting branch: all_facts[:10].
OverBudgetFacts(ts, cfg, seed) ==
    SliceTo(extract_key_facts(original_text(ts), cfg.priority_keywords, seed),
            PreservedFactLimit)

\* Faulty variant: a conversation exactly at the budget is compacted.
WithinBudget_strict(original_tokens, cfg) == original_tokens < cfg.max_tokens

\* The test of the branch "If under budget, no compaction needed".
WithinBudget(original_tokens, cfg) == original_tokens <= cfg.max_tokens

\* compact() reaches the partition: some turn, and the budget exceeded.
OverBudget(ts, cfg) ==
    Len(ts) > 0 /\ ~WithinBudget(estimate_tokens(original_text(ts)), cfg)

compact(ts, cfg, seed) ==
    IF Len(ts) = 0
    THEN [original_tokens |-> 0, compacted_tokens |-> 0,
          compression_ratio |-> Ratio(1, 1), summary |-> "",
          preserved_facts |-> << >>, kept_turns |-> 0, compacted_turns |-> 0]
    ELSE LET original_tokens == estimate_tokens(original_text(ts))
         IN  IF WithinBudget(original_tokens, cfg)
             THEN [original_tokens |-> original_tokens,
                   compacted_tokens |-> original_tokens,
                   compression_ratio |-> Ratio(1, 1), summary |-> "",
                   preserved_facts |-> WithinBudgetFacts(ts, cfg, seed),
                   kept_turns |-> Len(ts), compacted_turns |-> 0]
             ELSE LET summary == summarize_turns(turns_to_summarize(ts, cfg), cfg, seed)
                      kept_text == Join(" ", ContentsOf(turns_to_keep(ts, cfg)))
                      compacted_tokens == estimate_tokens(summary \o " " \o kept_text)
                  IN  [original_tokens |-> original_tokens,
                       compacted_tokens |-> compacted_tokens,
                       compression_ratio |->
                           IF original_tokens > 0
                           THEN Ratio(compacted_tokens, original_tokens)
                           ELSE Ratio(1, 1),
                       summary |-> summary,
                       preserved_facts |-> OverBudgetFacts(ts, cfg, seed),
                       kept_turns |-> Len(turns_to_keep(ts, cfg)),
                       compacted_turns |-> Len(turns_to_summarize(ts, cfg))]

\* ---------------------------------------------------- get_compacted_context
\* The string built from result = self.compact(events).
get_compacted_context(r) ==
    LET context_parts ==
            << r.summary >>
            \o (IF Len(r.preserved_facts) > 0
                THEN << "[Preserved facts: " \o Join("; ", r.preserved_facts) \o "]" >>
                ELSE << >>)
    IN  IF r.summary = "" THEN "" ELSE Join("\n", context_parts)

\* -------------------------------------------------------------------- state
\* What a caller may put into a turn.
TurnContents ==
    { "We're vegan",
      "I live in Rome. I commit to Meatless Mondays!",
      "Used 15.2 kg CO2. I drive a car to work",
      "1kg co2 2kg co2 3kg co2 4kg co2 5kg co2 6kg co2 7kg co2 8kg co2 9kg co2 1 ton co2" }

Roles == << "user", "assistant" >>

\* The configurations a caller constructs: the defaults of CompactionConfig
\* and values around the edges of the budget, the partition and the summary.
DefaultMaxTokens == 4000
DefaultMinTurnsToKeep == 3
DefaultOverlapSize == 1
DefaultSummaryMaxLength == 500
MaxTokensChoices == {12, DefaultMaxTokens}
MinTurnsToKeepChoices == {0, 1, DefaultMinTurnsToKeep}
SummaryMaxLengthChoices == {2, 40, DefaultSummaryMaxLength}

Configs ==
    [max_tokens : MaxTokensChoices,
     min_turns_to_keep : MinTurnsToKeepChoices,
     overlap_size : {DefaultOverlapSize},
     summary_max_length : SummaryMaxLengthChoices,
     priority_keywords : {DefaultPriorityKeywords}]

\* Python's None, as a record so that it compares with the records it stands in for.
None == [none |-> TRUE]

\* The string-hash seeds (PYTHONHASHSEED) a process may start with; the seed
\* decides the order in which list(set(...)) lists its elements.
HashSeeds == {0, 1}

VARIABLES
    turns,      \* the conversation history the caller holds
    config,     \* ClimateGuardCompactor.config
    hashSeed,   \* the string-hash seed of the process
    result,     \* the CompactionResult of the last compact(), None before it
    locals,     \* turns_to_summarize / turns_to_keep of that call, None when
                \* it returned before the partition
    context     \* [text |-> the string get_compacted_context() returned], None
                \* before it

compactorVars == << turns, config, hashSeed, result, locals, context >>

\* ------------------------------------------------------ the entity store
\* How many timestamped store operations (each reads datetime.now()) a run
\* performs.
MaxClock == 3

\* The identities callers use; the empty string is one of them.
UserIds == {"", "alice", "bob"}

\* UserProfile(user_id, diet_type) as a fresh object: the fields the
\* operations of the store read or write, the others at their defaults.
\* to_dict stands for the class's method of that name until an instance
\* attribute shadows it.
BoundMethod == "<bound method>"
DefaultReductionGoal == 20
UserProfile(user_id, diet_type, now) ==
    [user_id |-> user_id,
     created_at |-> now,
     updated_at |-> now,
     city |-> "",
     diet_type |-> diet_type,
     primary_transport |-> "",
     reduction_goal_percentage |-> DefaultReductionGoal,
     to_dict |-> BoundMethod]

\* hasattr(profile, key): the dataclass fields and the methods of the class.
HasAttr(profile, key) == key \in DOMAIN profile

\* The dataclass fields, cls.__dataclass_fields__.
DataFields ==
    {"user_id", "created_at", "updated_at", "city", "diet_type",
     "primary_transport", "reduction_goal_percentage"}

\* asdict(profile)
ProfileToDict(profile) == [f \in DataFields |-> profile[f]]

VARIABLES
    heap,               \* the UserProfile objects created so far, by reference
    profiles,           \* _profiles: user_id -> reference into heap, 0 = no key
    memories,           \* _memories: user_id -> list of MemoryEntry
    footprint_history,  \* _footprint_history: user_id -> list of FootprintRecord
    ids,                \* how many ids _generate_id has handed out
    clock,              \* datetime.now(), in ticks
    reply               \* what the last store operation returned or raised

storeVars == << heap, profiles, memories, footprint_history, ids, clock, reply >>

\* ClimateGuardMemoryService.__init__: three empty dicts.
StoreInit ==
    /\ heap = << >>
    /\ profiles = [u \in UserIds |-> 0]
    /\ memories = [u \in UserIds |-> << >>]
    /\ footprint_history = [u \in UserIds |-> << >>]
    /\ ids = 0
    /\ clock = 0
    /\ reply = None

\* The worker threads of the tool functions and the module global they share.
VARIABLES
    threads,            \* thread -> where it is in its call, and its locals
    instance            \* _memory_service_instance: None, else the object

threadVars == << threads, instance >>

\* No worker thread runs and the factory has not been called.
ThreadInit ==
    /\ threads = << >>
    /\ instance = None

\* The impact tracker (src/plugins/impact_tracker.py) and its metrics file.
VARIABLES
    metrics,            \* ImpactTracker.metrics, the counters
    events,             \* ImpactTracker.events
    metricsFile         \* the JSON document at persist_path, None = no file

trackerVars == << metrics, events, metricsFile >>

\* No tracker has been constructed.
NoTracker ==
    /\ metrics = None
    /\ events = << >>
    /\ metricsFile = None

vars == << compactorVars, storeVars, threadVars, trackerVars >>

Init ==
    /\ turns = << >>
    /\ config \in Configs
    /\ hashSeed \in HashSeeds
    /\ result = None
    /\ locals = None
    /\ context = None
    /\ StoreInit
    /\ ThreadInit
    /\ NoTracker

\* The caller records one more turn; roles alternate, the user speaks first.
AddTurn ==
    /\ Len(turns) < MaxTurns
    /\ \E c \in TurnContents :
         turns' = Append(turns, [role |-> Roles[(Len(turns) % 2) + 1], content |-> c])
    /\ result' = None
    /\ locals' = None
    /\ context' = None
    /\ UNCHANGED << config, hashSeed, storeVars, threadVars, trackerVars >>

\* compact(events) on the caller's history; every event is a turn dict, so
\* the conversion loop at the head of compact() copies it into `turns`.
Compact ==
    /\ result = None
    /\ result' = compact(turns, config, hashSeed)
    /\ locals' = IF OverBudget(turns, config)
                 THEN [turns_to_summarize |-> turns_to_summarize(turns, config),
                       turns_to_keep |-> turns_to_keep(turns, config)]
                 ELSE None
    /\ UNCHANGED << turns, config, hashSeed, context, storeVars, threadVars, trackerVars >>

\* get_compacted_context(events) on the caller's history: the call of
\* compact() inside it and the string built from its result.
GetCompactedContext ==
    /\ result = None
    /\ result' = compact(turns, config, hashSeed)
    /\ locals' = IF OverBudget(turns, config)
                 THEN [turns_to_summarize |-> turns_to_summarize(turns, config),
                       turns_to_keep |-> turns_to_keep(turns, config)]
                 ELSE None
    /\ context' = [text |-> get_compacted_context(result')]
    /\ UNCHANGED << turns, config, hashSeed, storeVars, threadVars, trackerVars >>

Next == AddTurn \/ Compact

Spec == Init /\ [][Next]_vars

\* The caller that asks for the prompt context instead of the result.
NextContext == AddTurn \/ GetCompactedContext

ContextSpec == Init /\ [][NextContext]_vars

\* ------------------------------------------------- the store's operations
\* str(n) for a natural number.
DigitChars == << "0", "1", "2", "3", "4", "5", "6", "7", "8", "9" >>

RECURSIVE Str(_)
Str(n) == IF n < 10 THEN DigitChars[n + 1] ELSE Str(n \div 10) \o DigitChars[(n % 10) + 1]

\* An emission is a float with one decimal, held in tenths of a kilogram;
\* FloatStr is how an f-string prints it (8.0 prints as "8.0").
TenthsPerKg == 10
FloatStr(tenths) == Str(tenths \div TenthsPerKg) \o "." \o Str(tenths % TenthsPerKg)

\* _generate_id(prefix): the prefix and a uuid4; the serial number stands for
\* the uuid, which differs from every uuid handed out before.
generate_id(prefix, n) == [prefix |-> prefix, serial |-> n + 1]

\* The store as one value: what the methods of the service read and write.
Store == [heap |-> heap, profiles |-> profiles, memories |-> memories,
          footprint_history |-> footprint_history, ids |-> ids]

\* add_memory(user_id, app_name, content, category, metadata) at time now.
add_memory(st, user_id, app_name, content, category, metadata, now) ==
    LET entry == [entry_id |-> generate_id("mem", st.ids),
                  user_id |-> user_id,
                  app_name |-> app_name,
                  content |-> content,
                  category |-> category,
                  timestamp |-> now,
                  metadata |-> metadata]
    IN  [st EXCEPT !.memories[user_id] = Append(@, entry),
                   !.ids = @ + 1]

\* What the caller of an operation holds afterwards: the call it made (the
\* operation and its arguments) and the value returned or exception raised.
Returned(op, args, value) ==
    [op |-> op, args |-> args, outcome |-> "returned", value |-> value]
Raised(op, args, exception) ==
    [op |-> op, args |-> args, outcome |-> "raised",
     value |-> [exception |-> exception]]

\* save_profile(profile) for the object at heap[ref]; profile.to_dict() is
\* evaluated for the metadata argument before add_memory is entered and
\* raises TypeError when an instance attribute shadows the method with a
\* string.  The result is the store after the call and the outcome.
ProfileSummary(p) ==
    "User profile: " \o p.diet_type \o " diet, " \o p.primary_transport
        \o " transport, lives in " \o p.city

\* Faulty variant: the profile is stored without the derived memory entry.
save_profile_silent(st, ref, now, op, args) ==
    LET st1 == [st EXCEPT !.heap[ref].updated_at = now]
        p == st1.heap[ref]
    IN  [store |-> [st1 EXCEPT !.profiles[p.user_id] = ref],
         reply |-> Returned(op, args,
                            [status |-> "success", user_id |-> p.user_id,
                             message |-> "Profile saved"])]

save_profile(st, ref, now, op, args) ==
    LET st1 == [st EXCEPT !.heap[ref].updated_at = now]
        p == st1.heap[ref]
        st2 == [st1 EXCEPT !.profiles[p.user_id] = ref]
    IN  IF p.to_dict # BoundMethod
        THEN [store |-> st2, reply |-> Raised(op, args, "TypeError")]
        ELSE [store |-> add_memory(st2, p.user_id, "climateguard", ProfileSummary(p),
                                   "profile", ProfileToDict(p), now),
              reply |-> Returned(op, args,
                                 [status |-> "success", user_id |-> p.user_id,
                                  message |-> "Profile saved"])]

\* Faulty variant: a miss is answered with a default-valued profile.
get_profile_default(st, user_id) ==
    IF st.profiles[user_id] = 0 THEN UserProfile(user_id, "", 0)
    ELSE st.heap[st.profiles[user_id]]

\* get_profile(user_id): the stored object or None.
get_profile(st, user_id) ==
    IF st.profiles[user_id] = 0 THEN None ELSE st.heap[st.profiles[user_id]]

\* The get_user_profile tool of the profile agent: get_profile through the
\* service, then a dict for the model to read.
get_user_profile(st, user_id) ==
    LET profile == get_profile(st, user_id)
        args == [user_id |-> user_id]
    IN  IF profile = None
        THEN Returned("get_user_profile", args,
                      [status |-> "not_found",
                       message |-> "No profile found for " \o user_id
                                   \o ". Please complete onboarding first."])
        ELSE IF profile.to_dict # BoundMethod
        THEN Raised("get_user_profile", args, "TypeError")
        ELSE Returned("get_user_profile", args,
                      [status |-> "success", profile |-> ProfileToDict(profile)])

\* setattr(profile, key, value) for every key of updates that hasattr finds.
ApplyUpdates(profile, updates) ==
    [f \in DOMAIN profile |->
        IF f \in DOMAIN updates /\ HasAttr(profile, f) THEN updates[f] ELSE profile[f]]

\* Faulty variant: a patch of an identity without a profile creates one.
update_profile_upsert(st, user_id, updates, now) ==
    LET args == [user_id |-> user_id, updates |-> updates]
        ref == IF st.profiles[user_id] = 0 THEN Len(st.heap) + 1 ELSE st.profiles[user_id]
        st1 == IF st.profiles[user_id] = 0
               THEN [st EXCEPT !.heap = Append(@, UserProfile(user_id, "", now))]
               ELSE st
    IN  save_profile([st1 EXCEPT !.heap[ref] = ApplyUpdates(@, updates)],
                     ref, now, "update_profile", args)

\* update_profile(user_id, updates)
update_profile(st, user_id, updates, now) ==
    LET ref == st.profiles[user_id]
        args == [user_id |-> user_id, updates |-> updates]
    IN  IF ref = 0
        THEN [store |-> st,
              reply |-> Returned("update_profile", args,
                                 [status |-> "error",
                                  message |-> "Profile not found for user " \o user_id])]
        ELSE save_profile([st EXCEPT !.heap[ref] = ApplyUpdates(@, updates)],
                          ref, now, "update_profile", args)

\* Faulty variant: the new record is put in front of the older ones.
record_footprint_front(st, user_id, category, activity, emissions, now) ==
    LET record == [record_id |-> generate_id("fp", st.ids),
                   user_id |-> user_id,
                   timestamp |-> now,
                   category |-> category,
                   activity |-> activity,
                   emissions_kg_co2 |-> emissions]
        st1 == [st EXCEPT !.footprint_history[user_id] = << record >> \o @,
                          !.ids = @ + 1]
    IN  [store |-> add_memory(st1, user_id, "climateguard", "Footprint recorded",
                              "footprint", record, now),
         reply |-> Returned("record_footprint", [user_id |-> user_id],
                            [status |-> "success", record_id |-> record.record_id,
                             emissions_kg_co2 |-> emissions])]

\* record_footprint(user_id, category, activity, emissions_kg_co2)
record_footprint(st, user_id, category, activity, emissions, now) ==
    LET record == [record_id |-> generate_id("fp", st.ids),
                   user_id |-> user_id,
                   timestamp |-> now,
                   category |-> category,
                   activity |-> activity,
                   emissions_kg_co2 |-> emissions]
        st1 == [st EXCEPT !.footprint_history[user_id] = Append(@, record),
                          !.ids = @ + 1]
        content == "Footprint recorded: " \o activity \o " - " \o FloatStr(emissions)
                       \o " kg CO2 (" \o category \o ")"
    IN  [store |-> add_memory(st1, user_id, "climateguard", content, "footprint",
                              record, now),
         reply |-> Returned("record_footprint", [user_id |-> user_id],
                            [status |-> "success", record_id |-> record.record_id,
                             emissions_kg_co2 |-> emissions])]

\* sum(r.emissions_kg_co2 for r in records), in tenths.
RECURSIVE SumEmissions(_)
SumEmissions(records) ==
    IF Len(records) = 0 THEN 0
    ELSE records[1].emissions_kg_co2 + SumEmissions(Tail(records))

\* [r for r in records if r.category == category]
RECURSIVE FilterCategory(_, _)
FilterCategory(records, category) ==
    IF Len(records) = 0 THEN << >>
    ELSE (IF records[1].category = category THEN << records[1] >> ELSE << >>)
         \o FilterCategory(Tail(records), category)

\* Faulty variant: a last record equal to the first counts as improving.
Trend_nonstrict(records) ==
    IF Len(records) > 1
       /\ records[Len(records)].emissions_kg_co2 <= records[1].emissions_kg_co2
    THEN "improving" ELSE "needs_attention"

\* "improving" if len(records) > 1 and records[-1].emissions_kg_co2 <
\* records[0].emissions_kg_co2 else "needs_attention"
Trend(records) ==
    IF Len(records) > 1
       /\ records[Len(records)].emissions_kg_co2 < records[1].emissions_kg_co2
    THEN "improving" ELSE "needs_attention"

\* How many of the newest records get_footprint_history hands out.
HistoryLimit == 10

\* get_footprint_history(user_id, category, days); a category of "" or None
\* is falsy and selects every record, and days is not read.  Totals are in
\* tenths, which round(x, 2) leaves as they are.
get_footprint_history(st, user_id, category, days) ==
    LET all == st.footprint_history[user_id]
        records == IF category # "" THEN FilterCategory(all, category) ELSE all
        categories == {records[i].category : i \in 1..Len(records)}
    IN  [status |-> "success",
         user_id |-> user_id,
         records_count |-> Len(records),
         total_emissions_kg_co2 |-> SumEmissions(records),
         by_category |-> [c \in categories |->
                             SumEmissions(FilterCategory(records, c))],
         records |-> SliceFrom(records, 0 - HistoryLimit),
         trend |-> Trend(records)]

\* ------------------------------------------------------------ search_memory
\* str.split(): the maximal runs of characters that are not whitespace, as
\* the set search_memory makes of them.
WordSet(s) ==
    LET starts == {i \in 1..Len(s) :
                      /\ CharAt(s, i) \notin Whitespace
                      /\ i = 1 \/ CharAt(s, i - 1) \in Whitespace}
        stop(i) == MinOf({j \in i..Len(s) :
                             j = Len(s) \/ CharAt(s, j + 1) \in Whitespace})
    IN  {SubSeq(s, i, stop(i)) : i \in starts}

\* sum(1 for word in query_words if word in content_lower)
Score(query_words, content_lower) ==
    Cardinality({word \in query_words : Contains(content_lower, word)})

\* The (score, mem) pairs of the loop over the user's memories, in the order
\* of the list; category "" is falsy and filters nothing.
RECURSIVE ScoredResults(_, _, _)
ScoredResults(mems, query_words, category) ==
    IF Len(mems) = 0 THEN << >>
    ELSE LET mem == mems[1]
             score == Score(query_words, Lower(mem.content))
         IN  (IF (category # "" /\ mem.category # category) \/ score = 0
              THEN << >>
              ELSE << [score |-> score, mem |-> mem] >>)
             \o ScoredResults(Tail(mems), query_words, category)

\* Faulty variant: the pairs are sorted by ascending score.
RECURSIVE SortByScore_ascending(_)
SortByScore_ascending(scored) ==
    IF Len(scored) = 0 THEN << >>
    ELSE LET front == SortByScore_ascending(SubSeq(scored, 1, Len(scored) - 1))
             x == scored[Len(scored)]
             before == SelectSeq(front, LAMBDA y : y.score <= x.score)
             after == SelectSeq(front, LAMBDA y : y.score > x.score)
         IN  before \o << x >> \o after

\* scored_results.sort(key=lambda x: x[0], reverse=True): a stable sort, so
\* a pair goes behind every pair of the same or a higher score that came
\* before it in the list.
RECURSIVE SortByScore(_)
SortByScore(scored) ==
    IF Len(scored) = 0 THEN << >>
    ELSE LET front == SortByScore(SubSeq(scored, 1, Len(scored) - 1))
             x == scored[Len(scored)]
             before == SelectSeq(front, LAMBDA y : y.score >= x.score)
             after == SelectSeq(front, LAMBDA y : y.score < x.score)
         IN  before \o << x >> \o after

\* Faulty variant: entries of every category are scored, whatever the filter.
search_memory_unfiltered(st, app_name, user_id, query, category, limit) ==
    LET ranked == SortByScore(ScoredResults(st.memories[user_id],
                                            WordSet(Lower(query)), ""))
        top == SliceTo(ranked, limit)
    IN  [i \in 1..Len(top) |->
            [entry_id |-> top[i].mem.entry_id,
             content |-> top[i].mem.content,
             category |-> top[i].mem.category,
             timestamp |-> top[i].mem.timestamp,
             relevance_score |-> top[i].score,
             metadata |-> top[i].mem.metadata]]

\* search_memory(app_name, user_id, query, category, limit); app_name is not
\* read.
search_memory(st, app_name, user_id, query, category, limit) ==
    LET ranked == SortByScore(ScoredResults(st.memories[user_id],
                                            WordSet(Lower(query)), category))
        top == SliceTo(ranked, limit)
    IN  [i \in 1..Len(top) |->
            [entry_id |-> top[i].mem.entry_id,
             content |-> top[i].mem.content,
             category |-> top[i].mem.category,
             timestamp |-> top[i].mem.timestamp,
             relevance_score |-> top[i].score,
             metadata |-> top[i].mem.metadata]]

\* ------------------------------------------------------- the store's callers
\* The diets a caller saves, the field maps it patches with and the
\* measurements it reports.
Diets == {"vegan", "omnivore"}

FieldMaps ==
    { [diet_type |-> "vegetarian"],
      [city |-> "Rome", favorite_color |-> "green"],
      [favorite_color |-> "green"],
      [user_id |-> "bob"],
      [to_dict |-> "vegan"] }

Measurements ==
    { [category |-> "transport", activity |-> "commute", emissions |-> 105],
      [category |-> "food", activity |-> "lunch", emissions |-> 80] }

\* The free-text memories the agents add themselves (community.py,
\* supervisor.py): goals, habits and conversation notes.
Notes ==
    { [content |-> "User committed to Meatless Mondays", category |-> "goal"] }

\* The store's variables take the parts of the store after a call.
StoreBecomes(st) ==
    /\ heap' = st.heap
    /\ profiles' = st.profiles
    /\ memories' = st.memories
    /\ footprint_history' = st.footprint_history
    /\ ids' = st.ids

\* A caller builds a fresh UserProfile and saves it, as the save_user_profile
\* tool does.
SaveProfile ==
    /\ clock < MaxClock
    /\ \E user_id \in UserIds, diet_type \in Diets :
         LET now == clock + 1
             st == [Store EXCEPT !.heap = Append(@, UserProfile(user_id, diet_type, now))]
             out == save_profile(st, Len(st.heap), now, "save_profile",
                                 [user_id |-> user_id, diet_type |-> diet_type])
         IN  /\ StoreBecomes(out.store)
             /\ reply' = out.reply
             /\ clock' = now
    /\ UNCHANGED << compactorVars, threadVars, trackerVars >>

GetProfile ==
    /\ \E user_id \in UserIds :
         reply' = Returned("get_profile", [user_id |-> user_id],
                           get_profile(Store, user_id))
    /\ UNCHANGED << heap, profiles, memories, footprint_history, ids, clock >>
    /\ UNCHANGED << compactorVars, threadVars, trackerVars >>

GetUserProfile ==
    /\ \E user_id \in UserIds : reply' = get_user_profile(Store, user_id)
    /\ UNCHANGED << heap, profiles, memories, footprint_history, ids, clock >>
    /\ UNCHANGED << compactorVars, threadVars, trackerVars >>

\* update_profile reads the clock only after it has found the profile.
UpdateProfile ==
    /\ clock < MaxClock
    /\ \E user_id \in UserIds, updates \in FieldMaps :
         LET now == clock + 1
             out == update_profile(Store, user_id, updates, now)
         IN  /\ StoreBecomes(out.store)
             /\ reply' = out.reply
             /\ clock' = IF Store.profiles[user_id] = 0 THEN clock ELSE now
    /\ UNCHANGED << compactorVars, threadVars, trackerVars >>

\* record_footprint for one of the users, with one of the measurements.
RecordFootprintOf(users, measurements) ==
    /\ \E user_id \in users, m \in measurements :
         LET now == clock + 1
             out == record_footprint(Store, user_id, m.category, m.activity,
                                     m.emissions, now)
         IN  /\ StoreBecomes(out.store)
             /\ reply' = out.reply
             /\ clock' = now
    /\ UNCHANGED << compactorVars, threadVars, trackerVars >>

RecordFootprintFor(users) == RecordFootprintOf(users, Measurements)

RecordFootprint ==
    /\ clock < MaxClock
    /\ RecordFootprintFor(UserIds \ {""})

\* add_memory called by an agent; metadata defaults to {}.
EmptyDict == [x \in {} |-> x]

AddMemory ==
    /\ clock < MaxClock
    /\ \E user_id \in UserIds \ {""}, note \in Notes :
         LET now == clock + 1
             st == add_memory(Store, user_id, "climateguard", note.content,
                              note.category, EmptyDict, now)
         IN  /\ StoreBecomes(st)
             /\ reply' = Returned("add_memory", [user_id |-> user_id],
                                  [status |-> "success",
                                   entry_id |-> generate_id("mem", ids),
                                   message |-> "Memory added successfully"])
             /\ clock' = now
    /\ UNCHANGED << compactorVars, threadVars, trackerVars >>

\* The look-back a caller asks for; 30 days is the default.
DefaultDays == 30

GetFootprintHistoryWith(categories, lookbacks) ==
    /\ \E user_id \in UserIds \ {""}, category \in categories, days \in lookbacks :
         reply' = Returned("get_footprint_history",
                           [user_id |-> user_id, category |-> category,
                            days |-> days],
                           get_footprint_history(Store, user_id, category, days))
    /\ UNCHANGED << heap, profiles, memories, footprint_history, ids, clock >>
    /\ UNCHANGED << compactorVars, threadVars, trackerVars >>

GetFootprintHistory == GetFootprintHistoryWith({"", "transport"}, {DefaultDays})

StoreNext ==
    \/ SaveProfile
    \/ GetProfile
    \/ GetUserProfile
    \/ UpdateProfile
    \/ RecordFootprint
    \/ AddMemory
    \/ GetFootprintHistory

\* The service on its own: no conversation is compacted.
StoreSpecInit ==
    /\ turns = << >>
    /\ config = [max_tokens |-> DefaultMaxTokens,
                 min_turns_to_keep |-> DefaultMinTurnsToKeep,
                 overlap_size |-> DefaultOverlapSize,
                 summary_max_length |-> DefaultSummaryMaxLength,
                 priority_keywords |-> DefaultPriorityKeywords]
    /\ hashSeed = 0
    /\ result = None
    /\ locals = None
    /\ context = None
    /\ StoreInit
    /\ ThreadInit
    /\ NoTracker

StoreSpec == StoreSpecInit /\ [][StoreNext]_vars

\* One user who keeps reporting measurements, past the number of records
\* get_footprint_history hands out, and the queries on the history.
MaxRecords == 11

RecordMany ==
    /\ Len(footprint_history["alice"]) < MaxRecords
    /\ RecordFootprintFor({"alice"})

HistoryNext == RecordMany \/ GetFootprintHistory

HistorySpec == StoreSpecInit /\ [][HistoryNext]_vars

\* Two users who report a measurement a day, smaller and larger ones in both
\* categories, and the queries on their histories: every category filter and
\* a look-back of one day as well as the default.
TrendMeasurements ==
    Measurements \cup {[category |-> "transport", activity |-> "bus", emissions |-> 30]}

RecordDaily ==
    /\ clock < MaxClock
    /\ RecordFootprintOf(UserIds \ {""}, TrendMeasurements)

GetFootprintHistoryOfDays ==
    GetFootprintHistoryWith({"", "transport", "food"}, {1, DefaultDays})

TrendNext == RecordDaily \/ GetFootprintHistoryOfDays

TrendSpec == StoreSpecInit /\ [][TrendNext]_vars

\* One user who collects notes, another with a note of their own that
\* matches the same queries, and the first user's searches with a limit
\* below and above the number of matches.
MaxNotes == 3

SearchNotes ==
    { [content |-> "Habit completed: cycling to work", category |-> "habit"],
      [content |-> "Goal: reduce footprint", category |-> "goal"],
      [content |-> "Joined the solar challenge", category |-> "goal"] }

Queries == {"goal habit completed", "Habit  HABIT cycling", ""}

DefaultLimit == 5

AddNoteOf(user_id, notes) ==
    /\ \E note \in notes :
         LET now == clock + 1
             st == add_memory(Store, user_id, "climateguard", note.content,
                              note.category, EmptyDict, now)
         IN  /\ StoreBecomes(st)
             /\ reply' = Returned("add_memory", [user_id |-> user_id],
                                  [status |-> "success",
                                   entry_id |-> generate_id("mem", ids),
                                   message |-> "Memory added successfully"])
             /\ clock' = now
    /\ UNCHANGED << compactorVars, threadVars, trackerVars >>

AddNote ==
    \/ /\ Len(memories["alice"]) < MaxNotes
       /\ AddNoteOf("alice", SearchNotes)
    \/ /\ Len(memories["bob"]) < 1
       /\ AddNoteOf("bob", {note \in SearchNotes : note.category = "habit"})

\* The caller holds the list search_memory returned, under "results".
SearchMemory ==
    /\ \E user_id \in {"alice"}, query \in Queries,
          category \in {"", "habit"}, limit \in {1, DefaultLimit} :
         reply' = Returned("search_memory",
                           [user_id |-> user_id, query |-> query,
                            category |-> category, limit |-> limit],
                           [results |-> search_memory(Store, "climateguard", user_id,
                                                      query, category, limit)])
    /\ UNCHANGED << heap, profiles, memories, footprint_history, ids, clock >>
    /\ UNCHANGED << compactorVars, threadVars, trackerVars >>

SearchNext == AddNote \/ SearchMemory

SearchSpec == StoreSpecInit /\ [][SearchNext]_vars

\* ------------------------------------------------------- concurrent appends
\* Two worker threads that call add_memory and record_footprint on the one
\* service, each for a user of its own.  A thread runs a statement of the
\* method at a time; the dicts start empty, so a user_id is a key only after
\* its first append.
Workers == {1, 2}

\* Calls a worker makes before it stops.
MaxCalls == 2

\* Faulty variant: the assignment replaces the dict by one with this key only.
dict_setitem_clobber(d, k, v) == [x \in {k} |-> v]

\* d[k] = v
dict_setitem(d, k, v) == [x \in DOMAIN d \cup {k} |-> IF x = k THEN v ELSE d[x]]

ConcurrentInit ==
    /\ turns = << >>
    /\ config = [max_tokens |-> DefaultMaxTokens,
                 min_turns_to_keep |-> DefaultMinTurnsToKeep,
                 overlap_size |-> DefaultOverlapSize,
                 summary_max_length |-> DefaultSummaryMaxLength,
                 priority_keywords |-> DefaultPriorityKeywords]
    /\ hashSeed = 0
    /\ result = None
    /\ locals = None
    /\ context = None
    /\ heap = << >>
    /\ profiles = [u \in UserIds |-> 0]
    /\ memories = << >>
    /\ footprint_history = << >>
    /\ ids = 0
    /\ clock = 0
    /\ reply = None
    /\ threads = [t \in Workers |->
                     [pc |-> "idle",
                      user_id |-> IF t = 1 THEN "alice" ELSE "bob",
                      calls |-> 0,
                      returned |-> << >>,
                      op |-> "",
                      record |-> None,
                      entry |-> None]]
    /\ instance = None
    /\ NoTracker

\* What every step of a worker leaves alone.
WorkerFrame ==
    /\ UNCHANGED << heap, profiles, clock, reply, instance >>
    /\ UNCHANGED << compactorVars, trackerVars >>

\* A tool function submits one more call for the worker's user.
StartCall(t) ==
    /\ threads[t].pc = "idle"
    /\ threads[t].calls < MaxCalls
    /\ \E op \in {"add_memory", "record_footprint"} :
         threads' = [threads EXCEPT
                        ![t].pc = IF op = "add_memory" THEN "mem_entry" ELSE "fp_record",
                        ![t].calls = @ + 1,
                        ![t].op = op,
                        ![t].record = None,
                        ![t].entry = None]
    /\ UNCHANGED << memories, footprint_history, ids >>
    /\ WorkerFrame

\* record = FootprintRecord(record_id=self._generate_id("fp"), ...)
FpRecord(t) ==
    /\ threads[t].pc = "fp_record"
    /\ threads' = [threads EXCEPT
                      ![t].pc = "fp_check",
                      ![t].record = [record_id |-> generate_id("fp", ids),
                                     user_id |-> threads[t].user_id,
                                     timestamp |-> clock,
                                     category |-> "transport",
                                     activity |-> "commute",
                                     emissions_kg_co2 |-> 105]]
    /\ ids' = ids + 1
    /\ UNCHANGED << memories, footprint_history >>
    /\ WorkerFrame

\* if user_id not in self._footprint_history:
FpCheck(t) ==
    /\ threads[t].pc = "fp_check"
    /\ threads' = [threads EXCEPT
                      ![t].pc = IF threads[t].user_id \in DOMAIN footprint_history
                                THEN "fp_append" ELSE "fp_create"]
    /\ UNCHANGED << memories, footprint_history, ids >>
    /\ WorkerFrame

\* self._footprint_history[user_id] = []
FpCreate(t) ==
    /\ threads[t].pc = "fp_create"
    /\ footprint_history' = dict_setitem(footprint_history, threads[t].user_id, << >>)
    /\ threads' = [threads EXCEPT ![t].pc = "fp_append"]
    /\ UNCHANGED << memories, ids >>
    /\ WorkerFrame

\* self._footprint_history[user_id].append(record)
FpAppend(t) ==
    /\ threads[t].pc = "fp_append"
    /\ footprint_history' =
           [footprint_history EXCEPT ![threads[t].user_id] = Append(@, threads[t].record)]
    /\ threads' = [threads EXCEPT ![t].pc = "mem_entry"]
    /\ UNCHANGED << memories, ids >>
    /\ WorkerFrame

\* entry = MemoryEntry(entry_id=self._generate_id("mem"), ...), in add_memory
\* called directly or from record_footprint.
MemEntry(t) ==
    /\ threads[t].pc = "mem_entry"
    /\ threads' = [threads EXCEPT
                      ![t].pc = "mem_check",
                      ![t].entry =
                          [entry_id |-> generate_id("mem", ids),
                           user_id |-> threads[t].user_id,
                           app_name |-> "climateguard",
                           content |-> IF threads[t].op = "add_memory"
                                       THEN "User committed to Meatless Mondays"
                                       ELSE "Footprint recorded: commute - 10.5 kg CO2 (transport)",
                           category |-> IF threads[t].op = "add_memory"
                                        THEN "goal" ELSE "footprint",
                           timestamp |-> clock,
                           metadata |-> IF threads[t].op = "add_memory"
                                        THEN << >> ELSE threads[t].record]]
    /\ ids' = ids + 1
    /\ UNCHANGED << memories, footprint_history >>
    /\ WorkerFrame

\* if user_id not in self._memories:
MemCheck(t) ==
    /\ threads[t].pc = "mem_check"
    /\ threads' = [threads EXCEPT
                      ![t].pc = IF threads[t].user_id \in DOMAIN memories
                                THEN "mem_append" ELSE "mem_create"]
    /\ UNCHANGED << memories, footprint_history, ids >>
    /\ WorkerFrame

\* self._memories[user_id] = []
MemCreate(t) ==
    /\ threads[t].pc = "mem_create"
    /\ memories' = dict_setitem(memories, threads[t].user_id, << >>)
    /\ threads' = [threads EXCEPT ![t].pc = "mem_append"]
    /\ UNCHANGED << footprint_history, ids >>
    /\ WorkerFrame

\* self._memories[user_id].append(entry), and the return to the caller, who
\* keeps the ids of what the call stored.
MemAppend(t) ==
    /\ threads[t].pc = "mem_append"
    /\ memories' = [memories EXCEPT ![threads[t].user_id] = Append(@, threads[t].entry)]
    /\ threads' = [threads EXCEPT
                      ![t].pc = "idle",
                      ![t].returned =
                          Append(@, [op |-> threads[t].op,
                                     entry_id |-> threads[t].entry.entry_id,
                                     record_id |-> IF threads[t].op = "record_footprint"
                                                   THEN threads[t].record.record_id
                                                   ELSE None])]
    /\ UNCHANGED << footprint_history, ids >>
    /\ WorkerFrame

Worker(t) ==
    \/ StartCall(t)
    \/ FpRecord(t)
    \/ FpCheck(t)
    \/ FpCreate(t)
    \/ FpAppend(t)
    \/ MemEntry(t)
    \/ MemCheck(t)
    \/ MemCreate(t)
    \/ MemAppend(t)

ConcurrentNext == \E t \in Workers : Worker(t)

ConcurrentSpec == ConcurrentInit /\ [][ConcurrentNext]_vars

\* -------------------------------------------------------- get_memory_service
\* Threads that call get_memory_service(), a statement at a time, and keep
\* the handles it returned.
Callers == {1, 2, 3}

SingletonInit ==
    /\ turns = << >>
    /\ config = [max_tokens |-> DefaultMaxTokens,
                 min_turns_to_keep |-> DefaultMinTurnsToKeep,
                 overlap_size |-> DefaultOverlapSize,
                 summary_max_length |-> DefaultSummaryMaxLength,
                 priority_keywords |-> DefaultPriorityKeywords]
    /\ hashSeed = 0
    /\ result = None
    /\ locals = None
    /\ context = None
    /\ StoreInit
    /\ threads = [t \in Callers |->
                     [pc |-> "idle", calls |-> 0, created |-> None, handles |-> << >>]]
    /\ instance = None
    /\ NoTracker

CallerFrame == UNCHANGED << compactorVars, storeVars, trackerVars >>

\* A tool function calls get_memory_service().
GetMemoryService(t) ==
    /\ threads[t].pc = "idle"
    /\ threads[t].calls < MaxCalls
    /\ threads' = [threads EXCEPT ![t].pc = "check", ![t].calls = @ + 1]
    /\ UNCHANGED instance
    /\ CallerFrame

\* if _memory_service_instance is None:
CheckInstance(t) ==
    /\ threads[t].pc = "check"
    /\ threads' = [threads EXCEPT
                      ![t].pc = IF instance = None THEN "construct" ELSE "return"]
    /\ UNCHANGED instance
    /\ CallerFrame

\* ClimateGuardMemoryService(use_vertex_ai=use_vertex_ai): a new object,
\* known by the thread and the call that made it.
ConstructService(t) ==
    /\ threads[t].pc = "construct"
    /\ threads' = [threads EXCEPT
                      ![t].pc = "assign",
                      ![t].created = [service |-> << t, threads[t].calls >>]]
    /\ UNCHANGED instance
    /\ CallerFrame

\* _memory_service_instance = <the new object>
AssignInstance(t) ==
    /\ threads[t].pc = "assign"
    /\ instance' = threads[t].created
    /\ threads' = [threads EXCEPT ![t].pc = "return"]
    /\ CallerFrame

\* return _memory_service_instance
ReturnInstance(t) ==
    /\ threads[t].pc = "return"
    /\ threads' = [threads EXCEPT ![t].pc = "idle",
                                  ![t].created = None,
                                  ![t].handles = Append(@, instance)]
    /\ UNCHANGED instance
    /\ CallerFrame

Caller(t) ==
    \/ GetMemoryService(t)
    \/ CheckInstance(t)
    \/ ConstructService(t)
    \/ AssignInstance(t)
    \/ ReturnInstance(t)

SingletonNext == \E t \in Callers : Caller(t)

SingletonSpec == SingletonInit /\ [][SingletonNext]_vars

\* ------------------------------------------------------------ impact tracker
\* ClimateGuardMetrics(first_recorded=now, last_updated=now): the counters
\* the record_* methods write; CO2 is in tenths of a kg.
ClimateGuardMetrics(now) ==
    [total_co2_saved_kg |-> 0,
     total_actions_completed |-> 0,
     total_plans_created |-> 0,
     total_challenges_joined |-> 0,
     total_users |-> 0,
     profiles_created |-> 0,
     first_recorded |-> now,
     last_updated |-> now]

\* ImpactEvent(event_type, user_id, value, metadata), stamped now.
ImpactEvent(event_type, user_id, value, metadata, now) ==
    [event_type |-> event_type, user_id |-> user_id, value |-> value,
     metadata |-> metadata, timestamp |-> now]

\* The tracker and its file as one value.
Tracker == [metrics |-> metrics, events |-> events, file |-> metricsFile]

\* _persist_metrics(): json.dump(self.metrics.to_dict()) over the file.
persist_metrics(tr) == [tr EXCEPT !.file = tr.metrics]

\* _load_metrics(): the file's document replaces the metrics when there is
\* a file.
load_metrics(tr) == IF tr.file # None THEN [tr EXCEPT !.metrics = tr.file] ELSE tr

\* ImpactTracker(persist_path=...) on the path of the file.
NewTracker(file, now) ==
    load_metrics([metrics |-> ClimateGuardMetrics(now), events |-> << >>, file |-> file])

\* record_co2_saved(user_id, kg_co2, category, action)
record_co2_saved(tr, user_id, kg_co2, category, action, now) ==
    LET event == ImpactEvent("co2_saved", user_id, kg_co2,
                             [category |-> category, action |-> action], now)
    IN  persist_metrics(
            [tr EXCEPT !.events = Append(@, event),
                       !.metrics.total_co2_saved_kg = @ + kg_co2,
                       !.metrics.total_actions_completed = @ + 1,
                       !.metrics.last_updated = now])

\* record_action_completed(user_id, action_id, action_name, co2_impact)
record_action_completed(tr, user_id, action_id, action_name, co2_impact, now) ==
    LET event == ImpactEvent("action_completed", user_id, 1,
                             [action_id |-> action_id, action_name |-> action_name,
                              co2_impact |-> co2_impact], now)
        counted == [tr EXCEPT !.events = Append(@, event),
                              !.metrics.total_actions_completed = @ + 1]
    IN  IF co2_impact > 0
        THEN record_co2_saved(counted, user_id, co2_impact, "action", action_name, now)
        ELSE counted

\* record_plan_created(user_id, actions_count, weekly_savings_kg)
record_plan_created(tr, user_id, actions_count, weekly_savings_kg, now) ==
    LET event == ImpactEvent("plan_created", user_id, weekly_savings_kg,
                             [actions_count |-> actions_count,
                              weekly_savings_kg |-> weekly_savings_kg], now)
    IN  [tr EXCEPT !.events = Append(@, event),
                   !.metrics.total_plans_created = @ + 1]

\* record_challenge_joined(user_id, challenge_name)
record_challenge_joined(tr, user_id, challenge_name, now) ==
    LET event == ImpactEvent("challenge_joined", user_id, 1,
                             [challenge_name |-> challenge_name], now)
    IN  [tr EXCEPT !.events = Append(@, event),
                   !.metrics.total_challenges_joined = @ + 1]

\* record_profile_created(user_id, location)
record_profile_created(tr, user_id, location, now) ==
    LET event == ImpactEvent("profile_created", user_id, 1,
                             [location |-> location], now)
    IN  [tr EXCEPT !.events = Append(@, event),
                   !.metrics.profiles_created = @ + 1,
                   !.metrics.total_users = @ + 1]

\* The CO2 amounts, in tenths of a kg, the callers report with an action:
\* none, and 8.0 kg.
Co2Impacts == {0, 80}

\* A tracker on a path without a file, and no store operation.
TrackerInit ==
    /\ turns = << >>
    /\ config = [max_tokens |-> DefaultMaxTokens,
                 min_turns_to_keep |-> DefaultMinTurnsToKeep,
                 overlap_size |-> DefaultOverlapSize,
                 summary_max_length |-> DefaultSummaryMaxLength,
                 priority_keywords |-> DefaultPriorityKeywords]
    /\ hashSeed = 0
    /\ result = None
    /\ locals = None
    /\ context = None
    /\ StoreInit
    /\ ThreadInit
    /\ metrics = NewTracker(None, 0).metrics
    /\ events = << >>
    /\ metricsFile = None

\* The fields of the tracker take the parts of the tracker after a call,
\* made at the next tick of the clock.
TrackerBecomes(tr) ==
    /\ metrics' = tr.metrics
    /\ events' = tr.events
    /\ metricsFile' = tr.file
    /\ clock' = clock + 1
    /\ UNCHANGED << heap, profiles, memories, footprint_history, ids, reply >>
    /\ UNCHANGED << compactorVars, threadVars >>

RecordCo2Saved ==
    /\ clock < MaxClock
    /\ TrackerBecomes(record_co2_saved(Tracker, "alice", 55, "diet", "meatless_monday",
                                       clock + 1))

RecordActionCompleted ==
    /\ clock < MaxClock
    /\ \E co2_impact \in Co2Impacts :
         TrackerBecomes(record_action_completed(Tracker, "alice", "transit_day",
                                                "Public Transit Day", co2_impact,
                                                clock + 1))

RecordPlanCreated ==
    /\ clock < MaxClock
    /\ TrackerBecomes(record_plan_created(Tracker, "alice", 5, 255, clock + 1))

RecordChallengeJoined ==
    /\ clock < MaxClock
    /\ TrackerBecomes(record_challenge_joined(Tracker, "alice",
                                              "30-Day Plant-Based Challenge", clock + 1))

RecordProfileCreated ==
    /\ clock < MaxClock
    /\ TrackerBecomes(record_profile_created(Tracker, "alice", "San Francisco",
                                             clock + 1))

\* The process ends and a new one constructs its tracker on the same path.
Restart ==
    /\ clock < MaxClock
    /\ events # << >>
    /\ TrackerBecomes(NewTracker(metricsFile, clock + 1))

TrackerNext ==
    \/ RecordCo2Saved
    \/ RecordActionCompleted
    \/ RecordPlanCreated
    \/ RecordChallengeJoined
    \/ RecordProfileCreated
    \/ Restart

TrackerSpec == TrackerInit /\ [][TrackerNext]_vars

\* ------------------------------------------------------------------- claims
\* The quantities the claims speak of, computed from the caller's turns alone.
Called == result # None

RECURSIVE ContentLength(_)
ContentLength(ts) ==
    IF Len(ts) = 0 THEN 0 ELSE Len(ts[1].content) + ContentLength(Tail(ts))

\* len(space-joined contents) div 4
EstimatedTokens(ts) ==
    IF Len(ts) = 0 THEN 0 ELSE (ContentLength(ts) + Len(ts) - 1) \div 4

BudgetExceeded == EstimatedTokens(turns) > config.max_tokens

\* max(minTurnsToKeep, number of turns div 3)
KeepCount == Max2(config.min_turns_to_keep, Len(turns) \div 3)

\* C1 (budget invariant): a turn sequence, the empty one included, whose
\* estimated token count is at most max_tokens comes back from compact with
\* compacted_turns = 0, summary = "", kept_turns = the number of turns and
\* compacted_tokens = original_tokens.
C1_BudgetInvariant ==
    (Called /\ ~BudgetExceeded) =>
        /\ result.compacted_turns = 0
        /\ result.summary = ""
        /\ result.kept_turns = Len(turns)
        /\ result.compacted_tokens = result.original_tokens
        /\ result.original_tokens = EstimatedTokens(turns)

\* C1 witness: compact has returned for a two-turn conversation that sits
\* exactly at a budget of 12 tokens.
C1_Witness ==
    /\ Called
    /\ Len(turns) = 2
    /\ EstimatedTokens(turns) = config.max_tokens
    /\ result.kept_turns = 2

\* C2 (as claimed): whenever the estimated token count exceeds max_tokens,
\* the result's compacted_tokens is at most max_tokens.
C2_CompactedWithinBudget ==
    (Called /\ BudgetExceeded) => result.compacted_tokens <= config.max_tokens

\* C3 (over-budget invariant): whenever the estimated token count exceeds
\* max_tokens, kept_turns >= min(min_turns_to_keep, number of turns).
C3_OverBudgetKeepsMinimum ==
    (Called /\ BudgetExceeded) =>
        result.kept_turns >= Min2(config.min_turns_to_keep, Len(turns))

\* C3 witness: an over-budget conversation of three turns of which compact
\* kept exactly min_turns_to_keep = 1 and folded the other two.
C3_Witness ==
    /\ Called
    /\ BudgetExceeded
    /\ Len(turns) = 3
    /\ config.min_turns_to_keep = 1
    /\ result.kept_turns = 1
    /\ result.compacted_turns = 2

\* extractFacts(T) for the full text T of the caller's turns.
FullTextFacts ==
    Range(extract_key_facts(original_text(turns), config.priority_keywords, hashSeed))

\* C4 (fact superset): for a non-empty turn sequence with full text T, every
\* preserved fact is a fact of extractFacts(T), and preserved_facts is
\* non-empty whenever extractFacts(T) is, in both branches of compact.
C4_FactsFromFullText ==
    (Called /\ Len(turns) >= 1) =>
        /\ Range(result.preserved_facts) \subseteq FullTextFacts
        /\ (FullTextFacts # {} => Len(result.preserved_facts) >= 1)

\* C4 witness: an over-budget conversation whose full text holds more facts
\* than the cap, of which compact returned the first ten.
C4_Witness ==
    /\ Called
    /\ BudgetExceeded
    /\ Cardinality(FullTextFacts) > PreservedFactLimit
    /\ Len(result.preserved_facts) = PreservedFactLimit

\* The trimmed commitment sentences of the turns: a sentence of a turn's
\* content with a commitment phrase and an allow-list keyword.
CommitmentSentences(ts) ==
    UNION { { Strip(SplitSentences(ts[i].content)[j]) :
                j \in { k \in 1..Len(SplitSentences(ts[i].content)) :
                          IsCommitment(SplitSentences(ts[i].content)[k],
                                       config.priority_keywords) } } :
            i \in 1..Len(ts) }

\* C5 (as claimed): for an over-budget turn sequence, every commitment
\* sentence of every turn is included in a preserved fact that begins with
\* "Commitment:".
C5_CommitmentsPreserved ==
    (Called /\ BudgetExceeded) =>
        \A c \in CommitmentSentences(turns) :
            \E k \in 1..Len(result.preserved_facts) :
                /\ StartsWithAt(result.preserved_facts[k], 1, "Commitment:")
                /\ Contains(result.preserved_facts[k], c)

NoDuplicates(q) == \A i, j \in 1..Len(q) : i # j => q[i] # q[j]

\* C6 (as claimed): after every call of compact, over budget or not,
\* preserved_facts holds no fact twice and at most 10 facts.
C6_DedupAndCappedAlways ==
    Called =>
        /\ NoDuplicates(result.preserved_facts)
        /\ Len(result.preserved_facts) <= PreservedFactLimit

\* C6 (amended): preserved_facts never holds a fact twice; it holds at most
\* 10 facts when the sequence was over budget; within budget it holds every
\* fact of the full text, however many.
C6_DedupAndCappedOverBudget ==
    Called =>
        /\ NoDuplicates(result.preserved_facts)
        /\ BudgetExceeded => Len(result.preserved_facts) <= PreservedFactLimit
        /\ ~BudgetExceeded => Range(result.preserved_facts) = FullTextFacts

\* C6 witness: an over-budget conversation that states some fact twice and
\* more than ten distinct facts, cut to ten.
C6_Witness ==
    /\ Called
    /\ BudgetExceeded
    /\ Len(FactList(original_text(turns), config.priority_keywords))
           > Cardinality(FullTextFacts)
    /\ Cardinality(FullTextFacts) > PreservedFactLimit
    /\ Len(result.preserved_facts) = PreservedFactLimit

\* C7 (as claimed): over budget, with k = min(KeepCount, n), compact keeps
\* exactly the last k turns and folds the first n - k, for every n >= 1 and
\* every KeepCount >= 0.
C7_PartitionByKeepCount ==
    (Called /\ BudgetExceeded) =>
        LET n == Len(turns)
            k == Min2(KeepCount, n)
        IN  /\ locals # None
            /\ locals.turns_to_keep = SubSeq(turns, n - k + 1, n)
            /\ locals.turns_to_summarize = SubSeq(turns, 1, n - k)
            /\ result.kept_turns = k
            /\ result.compacted_turns = n - k

\* C8 (recent turns are preserved): for a non-empty turn sequence the turns
\* kept verbatim are a contiguous suffix of the input that includes the last
\* turn, and the folded turns are the prefix before it.
C8_KeepsRecentTurns ==
    (Called /\ Len(turns) >= 1) =>
        IF locals # None
        THEN /\ locals.turns_to_summarize \o locals.turns_to_keep = turns
             /\ Len(locals.turns_to_keep) >= 1
             /\ locals.turns_to_keep[Len(locals.turns_to_keep)] = turns[Len(turns)]
             /\ result.kept_turns = Len(locals.turns_to_keep)
             /\ result.compacted_turns = Len(locals.turns_to_summarize)
        ELSE /\ result.kept_turns = Len(turns)
             /\ result.compacted_turns = 0

\* C8 witness: compact folded two older turns and kept the last one.
C8_Witness ==
    /\ Called
    /\ locals # None
    /\ Len(locals.turns_to_summarize) = 2
    /\ locals.turns_to_keep = << turns[Len(turns)] >>

\* C9 (as claimed): whenever the budget is exceeded compact keeps strictly
\* fewer turns than it was given.
C9_AlwaysReduces ==
    (Called /\ BudgetExceeded) =>
        /\ result.kept_turns < Len(turns)
        /\ result.compacted_turns >= 1

\* C9 (amended): over budget, compact keeps strictly fewer turns than it was
\* given exactly when 1 <= KeepCount < number of turns; in every other case
\* (KeepCount at least the number of turns, or KeepCount = 0) it keeps every
\* turn and folds none.
C9_ReducesWhenKeepCountBelowLength ==
    (Called /\ BudgetExceeded) =>
        IF 1 <= KeepCount /\ KeepCount < Len(turns)
        THEN result.kept_turns < Len(turns) /\ result.compacted_turns >= 1
        ELSE result.kept_turns = Len(turns) /\ result.compacted_turns = 0

\* C9 witness: an over-budget conversation of two turns with KeepCount 1,
\* reduced to one kept turn.
C9_Witness ==
    /\ Called
    /\ BudgetExceeded
    /\ Len(turns) = 2
    /\ KeepCount = 1
    /\ result.kept_turns = 1

\* The summary as assembled, before the truncation.
AssembledSummary ==
    summarize_turns(locals.turns_to_summarize,
                    [config EXCEPT !.summary_max_length = 100000], hashSeed)

\* C10 (as claimed): the summary is at most summary_max_length characters
\* long, for every summary_max_length >= 0; an assembled summary that is
\* longer is cut to its first summary_max_length - 3 characters and "...".
C10_SummaryWithinMaxLength ==
    (Called /\ locals # None) =>
        /\ Len(result.summary) <= config.summary_max_length
        /\ Len(AssembledSummary) > config.summary_max_length =>
               result.summary =
                   SubSeq(AssembledSummary, 1, Max2(0, config.summary_max_length - 3))
                       \o "..."

\* C11 (as claimed): for a turn sequence over budget get_compacted_context
\* returns a non-empty string: the summary on the first line, and on a second
\* line "[Preserved facts: ...]" exactly when preserved_facts is non-empty.
C11_ContextNonEmptyOverBudget ==
    (context # None /\ BudgetExceeded) =>
        /\ context.text # ""
        /\ context.text =
               result.summary
               \o (IF Len(result.preserved_facts) > 0
                   THEN "\n[Preserved facts: " \o Join("; ", result.preserved_facts) \o "]"
                   ELSE "")

\* C12 (as claimed): compact is a function of (turns, config) alone: the
\* result of a call is the result every process returns for the same turns
\* and config, whatever its string-hash seed, and the call changes neither
\* the turns, nor the config, nor anything the entity store holds.
C12_PureFunction ==
    [][(result = None /\ result' # None) =>
          /\ turns' = turns
          /\ config' = config
          /\ UNCHANGED storeVars
          /\ \A seed \in HashSeeds : result' = compact(turns, config, seed)]_vars

\* ------------------------------------------------------------ store claims
\* The last store operation, once there has been one.
Replied(op) == reply # None /\ reply.op = op

Succeeded ==
    /\ reply.outcome = "returned"
    /\ reply.value # None
    /\ "status" \in DOMAIN reply.value
    /\ reply.value.status = "success"

\* C13 (as claimed): save_profile with the empty identity fails with a
\* validation error and leaves the store without a profile or a memory
\* entry under the empty key; with a non-empty identity it succeeds.
C13_EmptyIdentityRejected ==
    /\ profiles[""] = 0
    /\ memories[""] = << >>
    /\ Replied("save_profile") =>
           IF reply.args.user_id = ""
           THEN reply.outcome = "raised" /\ reply.value.exception = "ValidationError"
           ELSE Succeeded

\* The profile get_profile returns for an identity, as a dict of its data
\* fields; None when there is none.
Lookup(st, v) ==
    IF get_profile(st, v) = None THEN None ELSE ProfileToDict(get_profile(st, v))

\* The last call was a save or a patch addressed to identity v.
AddressedTo(v) ==
    /\ reply # None
    /\ reply.op \in {"save_profile", "update_profile"}
    /\ reply.args.user_id = v

\* What a patch is meant to leave behind: the data fields named in the map
\* replaced, the update timestamp moved, everything else as it was.
Patched(old, updates, new) ==
    \A f \in DataFields \ {"updated_at"} :
        new[f] = IF f \in DOMAIN updates THEN updates[f] ELSE old[f]

\* C14 (as claimed): a profile once stored is never not-found again; after a
\* successful save of identity v get_profile(v) returns the saved fields;
\* after a successful patch of v it returns the previous fields with the
\* patched ones replaced; and no call addressed to another identity changes
\* what get_profile(v) returns.
C14_RoundTrip ==
    [][\A v \in UserIds :
          /\ Lookup(Store, v) # None => Lookup(Store', v) # None
          /\ (AddressedTo(v)' /\ Succeeded' /\ reply'.op = "save_profile") =>
                 /\ Lookup(Store', v) # None
                 /\ Lookup(Store', v).user_id = v
                 /\ Lookup(Store', v).diet_type = reply'.args.diet_type
          /\ (AddressedTo(v)' /\ Succeeded' /\ reply'.op = "update_profile") =>
                 /\ Lookup(Store', v) # None
                 /\ Patched(Lookup(Store, v), reply'.args.updates, Lookup(Store', v))
          /\ (Lookup(Store, v) # None /\ ~AddressedTo(v)') =>
                 Lookup(Store', v) = Lookup(Store, v)]_vars

\* C15 (as claimed): the profile stored under identity k carries identity k,
\* and no two slots of the store hold a profile carrying the same identity.
C15_OneProfilePerIdentity ==
    /\ \A k \in UserIds : profiles[k] # 0 => heap[profiles[k]].user_id = k
    /\ \A k1, k2 \in UserIds :
           (k1 # k2 /\ profiles[k1] # 0 /\ profiles[k2] # 0) =>
               heap[profiles[k1]].user_id # heap[profiles[k2]].user_id

\* C16: update_profile for an identity without a stored profile returns the
\* not-found error and changes nothing in the store: no profile is created,
\* no memory entry is appended, no other identity's data is touched.
C16_PatchOfMissingProfile ==
    [][(Replied("update_profile")' /\ profiles[reply'.args.user_id] = 0) =>
          /\ reply'.outcome = "returned"
          /\ reply'.value.status = "error"
          /\ Contains(reply'.value.message, "not found")
          /\ UNCHANGED << heap, profiles, memories, footprint_history, ids >>]_vars

\* C16 witness: alice, who has no profile, was patched and got the error,
\* while bob's profile and memory entries are in the store.
C16_Witness ==
    /\ Replied("update_profile")
    /\ reply.args.user_id = "alice"
    /\ reply.outcome = "returned"
    /\ reply.value.status = "error"
    /\ profiles["alice"] = 0
    /\ memories["alice"] = << >>
    /\ profiles["bob"] # 0
    /\ Len(memories["bob"]) >= 1

\* C17 (as claimed): update_profile on an existing identity succeeds and
\* changes, in the stored profile, exactly the data fields named in the
\* field map (and updated_at); a key that is not a data field is ignored and
\* changes nothing, and every other attribute keeps its value.
C17_PatchChangesNamedFieldsOnly ==
    [][(Replied("update_profile")' /\ profiles[reply'.args.user_id] # 0) =>
          LET ref == profiles[reply'.args.user_id]
              updates == reply'.args.updates
          IN  /\ Succeeded'
              /\ \A f \in DOMAIN heap[ref] :
                     \/ f = "updated_at"
                     \/ heap'[ref][f] = IF f \in DataFields /\ f \in DOMAIN updates
                                        THEN updates[f]
                                        ELSE heap[ref][f]]_vars

\* C18: get_profile on an identity that has no stored profile returns None
\* (the get_user_profile tool: status "not_found"), raises nothing, returns
\* no default-valued profile, and the lookup leaves the whole store as it
\* was: no profile and no memory entry is created.
C18_MissIsExplicitNotFound ==
    [][(Replied("get_profile") \/ Replied("get_user_profile"))' =>
          /\ UNCHANGED << heap, profiles, memories, footprint_history, ids >>
          /\ profiles[reply'.args.user_id] = 0 =>
                 /\ reply'.outcome = "returned"
                 /\ IF reply'.op = "get_profile"
                    THEN reply'.value = None
                    ELSE /\ reply'.value.status = "not_found"
                         /\ "profile" \notin DOMAIN reply'.value]_vars

\* C18 witness: get_profile("alice") returned None in a store that holds
\* bob's profile and nothing of alice's.
C18_Witness ==
    /\ Replied("get_profile")
    /\ reply.args.user_id = "alice"
    /\ reply.value = None
    /\ profiles["alice"] = 0
    /\ memories["alice"] = << >>
    /\ profiles["bob"] # 0

\* How many entries of a memory sequence carry a category.
CountCategory(entries, category) ==
    Cardinality({i \in 1..Len(entries) : entries[i].category = category})

\* The sequence after is the sequence before with one element appended.
OneAppended(before, after) ==
    /\ Len(after) = Len(before) + 1
    /\ SubSeq(after, 1, Len(before)) = before

\* C19: every successful save_profile or update_profile appends exactly one
\* "profile" memory entry to the sequence of the identity it saved, every
\* record_footprint appends exactly one "footprint" entry (describing the
\* record it appended) to its user's sequence, no call removes or rewrites
\* an entry, no other call changes the number of "profile" or "footprint"
\* entries, and each identity has as many "footprint" entries as measurement
\* records.
C19_OneDerivedEntryPerWrite ==
    [][LET grew(u) == memories'[u] # memories[u]
           last(u) == memories'[u][Len(memories'[u])]
       IN  /\ \A u \in UserIds : grew(u) => OneAppended(memories[u], memories'[u])
           /\ IF (Replied("save_profile") \/ Replied("update_profile"))' /\ Succeeded'
              THEN \A u \in UserIds :
                       /\ grew(u) <=> u = reply'.value.user_id
                       /\ grew(u) => /\ last(u).category = "profile"
                                     /\ last(u).user_id = u
                                     /\ last(u).metadata = Lookup(Store', u)
              ELSE IF Replied("record_footprint")'
              THEN \A u \in UserIds :
                       /\ grew(u) <=> u = reply'.args.user_id
                       /\ grew(u) => /\ last(u).category = "footprint"
                                     /\ last(u).user_id = u
                                     /\ footprint_history'[u] =
                                            Append(footprint_history[u], last(u).metadata)
              ELSE \A u \in UserIds :
                       /\ CountCategory(memories'[u], "profile") =
                              CountCategory(memories[u], "profile")
                       /\ CountCategory(memories'[u], "footprint") =
                              CountCategory(memories[u], "footprint")
           /\ \A u \in UserIds :
                  CountCategory(memories'[u], "footprint") = Len(footprint_history'[u])]_vars

\* C19 witness: alice's profile was saved and then patched, and between
\* the two one measurement was recorded for her: two "profile" entries around
\* one "footprint" entry.
C19_Witness ==
    /\ Replied("update_profile")
    /\ Succeeded
    /\ reply.value.user_id = "alice"
    /\ Len(memories["alice"]) = 3
    /\ CountCategory(memories["alice"], "profile") = 2
    /\ memories["alice"][2].category = "footprint"
    /\ Len(footprint_history["alice"]) = 1

\* The measurement log grows only by record_footprint, by one record at the
\* end of its user's sequence; no step removes, reorders or changes a record.
AppendOnlyStep ==
    \A u \in UserIds :
        \/ footprint_history'[u] = footprint_history[u]
        \/ /\ Replied("record_footprint")'
           /\ reply'.args.user_id = u
           /\ OneAppended(footprint_history[u], footprint_history'[u])

\* Every record_footprint step appends to its user's log.
EveryRecordAppends ==
    Replied("record_footprint")' =>
        OneAppended(footprint_history[reply'.args.user_id],
                    footprint_history'[reply'.args.user_id])

\* The last call was get_footprint_history without a category filter.
UnfilteredQuery == Replied("get_footprint_history") /\ reply.args.category = ""

\* C20 (as claimed): the measurement history is an append-only log, and
\* after n appends for an identity the unfiltered history returned for it
\* holds all n records in insertion order.
C20_AppendOnlyFullHistory ==
    [][/\ AppendOnlyStep
       /\ EveryRecordAppends
       /\ UnfilteredQuery' =>
              /\ reply'.value.records_count = Len(footprint_history'[reply'.args.user_id])
              /\ reply'.value.records = footprint_history'[reply'.args.user_id]]_vars

\* C20 (amended): the measurement history is an append-only log that holds
\* the n records of an identity in insertion order; the unfiltered
\* get_footprint_history reports records_count = n and returns the newest
\* min(n, 10) of them, in insertion order.
C20_AppendOnlyLastTen ==
    [][/\ AppendOnlyStep
       /\ EveryRecordAppends
       /\ UnfilteredQuery' =>
              LET log == footprint_history'[reply'.args.user_id]
                  n == Len(log)
              IN  /\ reply'.value.records_count = n
                  /\ reply'.value.records =
                         SubSeq(log, IF n > HistoryLimit THEN n - HistoryLimit + 1 ELSE 1, n)]_vars

\* C20 witness: alice has reported eleven measurements and the unfiltered
\* query counted eleven and returned ten records.
C20_Witness ==
    /\ UnfilteredQuery
    /\ reply.args.user_id = "alice"
    /\ Len(footprint_history["alice"]) = MaxRecords
    /\ reply.value.records_count = MaxRecords
    /\ Len(reply.value.records) = HistoryLimit


\* ---------------------------------------------------------- history queries
\* The last call was get_footprint_history.
HistoryQuery == Replied("get_footprint_history")

\* The positions, in the owner's log, of the records the last query selects:
\* those of its user and, with a category given, of that category.
Selected ==
    LET log == footprint_history[reply.args.user_id]
    IN  {i \in 1..Len(log) :
            reply.args.category = "" \/ log[i].category = reply.args.category}

FirstSelected == CHOOSE i \in Selected : \A j \in Selected : i <= j
LastSelected == CHOOSE i \in Selected : \A j \in Selected : j <= i

\* The most recent selected record is strictly smaller than the first one.
Decreasing ==
    LET log == footprint_history[reply.args.user_id]
    IN  /\ Cardinality(Selected) >= 2
        /\ log[LastSelected].emissions_kg_co2 < log[FirstSelected].emissions_kg_co2

\* C21: the trend label of get_footprint_history is "improving" exactly when
\* the records selected by user and category are at least two and the most
\* recent one's emissions are strictly less than the first one's; in every
\* other case it is "needs_attention".
C21_TrendLabel ==
    HistoryQuery =>
        reply.value.trend = IF Decreasing THEN "improving" ELSE "needs_attention"

\* A category filter turns an improving history into one that is not: the
\* user's whole history falls, the transport records on their own rise.
C21_Witness ==
    /\ HistoryQuery
    /\ reply.args.category = "transport"
    /\ Cardinality(Selected) >= 2
    /\ Len(footprint_history[reply.args.user_id]) > Cardinality(Selected)
    /\ LET log == footprint_history[reply.args.user_id]
       IN  log[Len(log)].emissions_kg_co2 < log[1].emissions_kg_co2
    /\ reply.value.trend = "needs_attention"


\* The selected records that are no older than the look-back of the last
\* query.  A tick of the clock is a day: the callers report once a day.
Recent ==
    LET log == footprint_history[reply.args.user_id]
    IN  SelectSeq(log, LAMBDA r :
            /\ reply.args.category = "" \/ r.category = reply.args.category
            /\ r.timestamp >= clock - reply.args.days)

\* C22 (as claimed): get_footprint_history looks back only the requested
\* number of days: records older than that are excluded from the returned
\* records, the count, the totals and the trend.
C22_LookbackDays ==
    HistoryQuery =>
        /\ reply.value.records_count = Len(Recent)
        /\ reply.value.total_emissions_kg_co2 = SumEmissions(Recent)
        /\ \A i \in 1..Len(reply.value.records) :
               reply.value.records[i].timestamp >= clock - reply.args.days
        /\ reply.value.trend =
               (IF Len(Recent) >= 2
                   /\ Recent[Len(Recent)].emissions_kg_co2 < Recent[1].emissions_kg_co2
                THEN "improving" ELSE "needs_attention")


\* ------------------------------------------------------------------- search
\* The last call was search_memory.
SearchReply == Replied("search_memory")

\* The words of the last query: the pieces of the lower-cased query between
\* its blanks.
QueryWords ==
    LET q == Lower(reply.args.query)
    IN  {w \in {SubSeq(q, i, j) : i \in 1..Len(q), j \in 1..Len(q)} :
            /\ w # ""
            /\ ~Contains(w, " ")
            /\ Contains(" " \o q \o " ", " " \o w \o " ")}

\* The number of distinct query words found in the lower-cased content.
Matches(entry) ==
    Cardinality({w \in QueryWords : Contains(Lower(entry.content), w)})

\* The positions, in the searched user's memories, of the entries the last
\* search may return: those passing its category filter with a score >= 1.
Matching ==
    LET mine == memories[reply.args.user_id]
    IN  {k \in 1..Len(mine) :
            /\ reply.args.category = "" \/ mine[k].category = reply.args.category
            /\ Matches(mine[k]) >= 1}

\* The positions of the entries the last search returned.
ReturnedPositions ==
    LET mine == memories[reply.args.user_id]
        res == reply.value.results
    IN  {k \in 1..Len(mine) : \E i \in 1..Len(res) : res[i].entry_id = mine[k].entry_id}

\* Every returned entry is a matching entry of the searched user, reported
\* with its content, category and score.
OnlyMatchesReturned ==
    LET mine == memories[reply.args.user_id]
        res == reply.value.results
    IN  \A i \in 1..Len(res) :
            \E k \in Matching :
                /\ res[i].entry_id = mine[k].entry_id
                /\ res[i].content = mine[k].content
                /\ res[i].category = mine[k].category
                /\ res[i].relevance_score = Matches(mine[k])

\* C23 (as claimed): search returns an entry only if it belongs to the
\* identity, passes the category filter and has a score >= 1, so entries with
\* none of the query words are excluded; and a query word that occurs in
\* exactly one such entry yields that entry.
C23_RetrievalCorrectness ==
    SearchReply =>
        /\ OnlyMatchesReturned
        /\ \A w \in QueryWords :
               LET mine == memories[reply.args.user_id]
                   holders == {k \in Matching : Contains(Lower(mine[k].content), w)}
               IN  Cardinality(holders) = 1 => holders \subseteq ReturnedPositions

\* C23 (amended): search returns only matching entries of the identity, and
\* it returns every one of them, the only holder of a query word included,
\* whenever they are no more than limit; otherwise it returns limit of them.
C23_RetrievalWithinLimit ==
    SearchReply =>
        /\ OnlyMatchesReturned
        /\ Cardinality(ReturnedPositions) = Len(reply.value.results)
        /\ IF Cardinality(Matching) <= reply.args.limit
           THEN ReturnedPositions = Matching
           ELSE Cardinality(ReturnedPositions) = reply.args.limit

\* A search that returns the only holder of the query word "goal" behind a
\* better match, while the user's entry without any query word and another
\* user's matching entry stay out.
C23_Witness ==
    /\ SearchReply
    /\ reply.args.query = "goal habit completed"
    /\ reply.args.limit = DefaultLimit
    /\ Len(memories["alice"]) = 3
    /\ Len(memories["bob"]) = 1
    /\ Cardinality(Matching) = 2
    /\ Len(reply.value.results) = 2
    /\ reply.value.results[1].relevance_score = 2
    /\ reply.value.results[2].content = "Goal: reduce footprint"
    /\ \E k \in 1..3 : Matches(memories["alice"][k]) = 0


\* The position, in the searched user's memories, of the i-th returned entry.
PositionOf(i) ==
    LET mine == memories[reply.args.user_id]
    IN  CHOOSE k \in 1..Len(mine) : mine[k].entry_id = reply.value.results[i].entry_id

\* The entry at position k ranks before the one at position l: a higher
\* score, or the same score and stored earlier.
Outranks(k, l) ==
    LET mine == memories[reply.args.user_id]
    IN  \/ Matches(mine[k]) > Matches(mine[l])
        \/ Matches(mine[k]) = Matches(mine[l]) /\ k < l

\* C24: search returns at most limit entries, in non-increasing score order
\* with entries of equal score in their insertion order, and they are the top
\* limit of all matching entries: no omitted match outranks a returned one.
C24_TopLimitStableOrder ==
    SearchReply =>
        LET res == reply.value.results
        IN  /\ Len(res) <= reply.args.limit
            /\ Len(res) = Min2(reply.args.limit, Cardinality(Matching))
            /\ \A i, j \in 1..Len(res) :
                   i < j => /\ res[i].relevance_score >= res[j].relevance_score
                            /\ Outranks(PositionOf(i), PositionOf(j))
            /\ \A k \in Matching \ ReturnedPositions :
                   \A i \in 1..Len(res) : ~Outranks(k, PositionOf(i))

\* A search cut to one entry: of three matches the first stored has the
\* lowest score and the other two tie, and the earlier of the two is returned.
C24_Witness ==
    /\ SearchReply
    /\ reply.args.limit = 1
    /\ Cardinality(Matching) = 3
    /\ Matches(memories["alice"][1]) = 1
    /\ Matches(memories["alice"][2]) = 2
    /\ Matches(memories["alice"][3]) = 2
    /\ Len(reply.value.results) = 1
    /\ PositionOf(1) = 2


\* ------------------------------------------------------- concurrent appends
\* The ids, in order, of what the calls of worker t have stored.
StoredEntryIds(t) ==
    [i \in 1..Len(threads[t].returned) |-> threads[t].returned[i].entry_id]

StoredRecordIds(t) ==
    LET fps == SelectSeq(threads[t].returned, LAMBDA r : r.op = "record_footprint")
    IN  [i \in 1..Len(fps) |-> fps[i].record_id]

\* The ids of a user's list in a dict, none when the user is not a key yet.
EntryIdsOf(user_id) ==
    IF user_id \in DOMAIN memories
    THEN [i \in 1..Len(memories[user_id]) |-> memories[user_id][i].entry_id]
    ELSE << >>

RecordIdsOf(user_id) ==
    IF user_id \in DOMAIN footprint_history
    THEN [i \in 1..Len(footprint_history[user_id]) |->
             footprint_history[user_id][i].record_id]
    ELSE << >>

\* p is the beginning of q.
IsPrefix(p, q) == Len(p) <= Len(q) /\ SubSeq(q, 1, Len(p)) = p

\* C25: appends of two workers for distinct identities never interact:
\* whatever the interleaving, the first appends included, every entry and
\* record a finished call stored is in its own user's sequence, in call
\* order, and a sequence holds nothing but its user's appends: those of the
\* finished calls and at most the one of the call in progress.
C25_IndependentAppends ==
    \A t \in Workers :
        LET user_id == threads[t].user_id
            busy == IF threads[t].pc = "idle" THEN 0 ELSE 1
        IN  /\ \A u \in Workers \ {t} : threads[u].user_id # user_id
            /\ IsPrefix(StoredEntryIds(t), EntryIdsOf(user_id))
            /\ IsPrefix(StoredRecordIds(t), RecordIdsOf(user_id))
            /\ Len(EntryIdsOf(user_id)) <= Len(StoredEntryIds(t)) + busy
            /\ Len(RecordIdsOf(user_id)) <= Len(StoredRecordIds(t)) + busy
            /\ \A i \in 1..Len(EntryIdsOf(user_id)) :
                   memories[user_id][i].user_id = user_id
            /\ \A i \in 1..Len(RecordIdsOf(user_id)) :
                   footprint_history[user_id][i].user_id = user_id

\* The second worker has stored one call and is about to append another
\* while the first worker, in its first call ever, has found its user
\* missing from the dict and is about to create the list.
C25_Witness ==
    /\ threads[1].pc = "mem_create"
    /\ threads[1].op = "add_memory"
    /\ threads[2].pc = "mem_append"
    /\ threads[2].op = "record_footprint"
    /\ Len(threads[2].returned) = 1
    /\ "alice" \notin DOMAIN memories
    /\ Len(EntryIdsOf("bob")) = 1
    /\ Len(RecordIdsOf("bob")) = 2


\* ------------------------------------------------------------ impact tracker
\* The cumulative counters of a metrics record.
CounterFields ==
    {"total_co2_saved_kg", "total_actions_completed", "total_plans_created",
     "total_challenges_joined", "total_users", "profiles_created"}

Counters(m) == [f \in CounterFields |-> m[f]]

\* A record_* method has returned: the event log has grown.
Recorded == Len(events') > Len(events)

\* A new tracker has been constructed on the path: its event log is empty.
Constructed == events # << >> /\ events' = << >>

\* C26 (as claimed): the metrics file is overwritten after every
\* impact-relevant event: when a record_* method returns, the persisted
\* counters equal the tracker's counters, and a tracker constructed
\* afterwards on the same path starts from those counters.
C26_PersistedAfterEveryEvent ==
    [][/\ Recorded =>
              /\ metricsFile' # None
              /\ Counters(metricsFile') = Counters(metrics')
       /\ Constructed => Counters(metrics') = Counters(metrics)]_vars


\* How many events of a type a log holds.
CountEvents(log, event_type) ==
    Len(SelectSeq(log, LAMBDA e : e.event_type = event_type))

\* The call that has returned was record_action_completed: the log has a new
\* action_completed event.
ActionCompleted ==
    CountEvents(events', "action_completed") > CountEvents(events, "action_completed")

\* The completed actions the call that has returned reported: one for
\* record_action_completed and for record_co2_saved, none for the others.
ActionsReported ==
    IF ActionCompleted
       \/ CountEvents(events', "co2_saved") > CountEvents(events, "co2_saved")
    THEN 1 ELSE 0

\* C28 (as claimed): each call of record_action_completed increases
\* total_actions_completed by exactly 1 and appends exactly one
\* action_completed event, whatever its co2_impact, and every record_* call
\* moves total_actions_completed by the number of completed actions it
\* reports.
C28_ActionsCountedOnce ==
    [][Recorded =>
          /\ metrics'.total_actions_completed =
                 metrics.total_actions_completed + ActionsReported
          /\ ActionCompleted =>
                 CountEvents(events', "action_completed")
                     = CountEvents(events, "action_completed") + 1]_vars


\* -------------------------------------------------------- get_memory_service
\* The handles the callers hold.
Handles ==
    UNION {{threads[t].handles[i] : i \in 1..Len(threads[t].handles)} : t \in Callers}

\* C27 (as claimed): get_memory_service hands out one process-wide store:
\* under every interleaving of calls from several threads all callers receive
\* the same instance.
C27_OneInstanceForAll ==
    /\ Cardinality(Handles) <= 1
    /\ \A h \in Handles : h # None


\* C29 as claimed (nothing folded means nothing changed): whenever compact
\* folds no turn it reports compacted_tokens = original_tokens and a
\* compression ratio of 1.0, the over-budget call whose keep count covers
\* every turn included; and whenever original_tokens > 0 the ratio is
\* compacted_tokens / original_tokens.
C29_NothingFoldedRatioOne ==
    Called =>
        /\ result.compacted_turns = 0 =>
               /\ result.compacted_tokens = result.original_tokens
               /\ result.compression_ratio.num = result.compression_ratio.den
        /\ result.original_tokens > 0 =>
               result.compression_ratio.num * result.original_tokens
                   = result.compacted_tokens * result.compression_ratio.den

\* C29 (token report when nothing is folded): a call within the budget
\* reports compacted_tokens = original_tokens and a ratio of 1.0; a call over
\* the budget that folds no turn counts the separator written before the kept
\* text, so compacted_tokens = (length of the joined contents + 1) div 4,
\* which is original_tokens or original_tokens + 1; and whenever
\* original_tokens > 0 the ratio is compacted_tokens / original_tokens.
C29_NothingFoldedTokenReport ==
    Called =>
        /\ (result.compacted_turns = 0 /\ ~BudgetExceeded) =>
               /\ result.compacted_tokens = result.original_tokens
               /\ result.compression_ratio.num = result.compression_ratio.den
        /\ (result.compacted_turns = 0 /\ BudgetExceeded) =>
               /\ result.compacted_tokens
                      = (ContentLength(turns) + Len(turns)) \div 4
               /\ result.compacted_tokens \in
                      {result.original_tokens, result.original_tokens + 1}
        /\ result.original_tokens > 0 =>
               result.compression_ratio.num * result.original_tokens
                   = result.compacted_tokens * result.compression_ratio.den

\* An over-budget call that folds nothing and reports one token more than the
\* original estimate.
C29_Witness ==
    /\ Called
    /\ BudgetExceeded
    /\ result.compacted_turns = 0
    /\ result.kept_turns = Len(turns)
    /\ result.compacted_tokens = result.original_tokens + 1


\* The stored profile of an identity, before and after a step.
ProfileOf(u) == heap[profiles[u]]
ProfileAfter(u) == heap'[profiles'[u]]

\* C30 (creation timestamp fixed at the first save): once a non-empty
\* identity has a stored profile, every later step (a save of a freshly built
\* profile for that identity, as save_user_profile makes it, or a patch)
\* leaves a profile stored for it with the same created_at, an updated_at
\* that has not moved back, and created_at <= updated_at.
C30_CreatedAtFixed ==
    [][\A u \in UserIds \ {""} :
           profiles[u] # 0 =>
               /\ profiles'[u] # 0
               /\ ProfileAfter(u).created_at = ProfileOf(u).created_at
               /\ ProfileAfter(u).updated_at >= ProfileOf(u).updated_at
               /\ ProfileAfter(u).created_at <= ProfileAfter(u).updated_at]_vars

====
